---- MODULE Spec2Model ----
(***************************************************************************)
(* Verification model of the GeoMap planar map (src/geomap/cppmap.cxx) and *)
(* of the checkpointing CellPyramid (src/cellimage/cellpyramid.hxx).       *)
(*                                                                         *)
(* A GeoMap is a record of three cell tables (nodes, edges, faces) and the *)
(* three live counters.  A removed cell is a slot whose live flag is       *)
(* FALSE (RESET_PTR of the slot).  Darts are signed edge labels.           *)
(* Every map operation yields a record [st, m]: st = "ok" on normal        *)
(* return, "throw" when a vigra_precondition / vigra_fail raises, and      *)
(* "ub" when the code dereferences a NULL cell pointer; m is the map left  *)
(* behind.                                                                 *)
(***************************************************************************)
EXTENDS Integers, Sequences, FiniteSets, TLC

\* ------------------------------------------------------------------------
\* bounds of the model
\* ------------------------------------------------------------------------
MaxHist == 2
MaxNest == 2
MaxOps == 2

\* ------------------------------------------------------------------------
\* program constants
\* ------------------------------------------------------------------------
UNINITIALIZED_CELL_LABEL == 0 - 1
MinCheckpointDist == 10

\* results of dart navigation that does not yield a dart
DartThrows == 1000
DartUndefined == 2000

IsDart(d) == d # DartThrows /\ d # DartUndefined

\* ------------------------------------------------------------------------
\* sequence helpers
\* ------------------------------------------------------------------------
Abs(x) == IF x < 0 THEN 0 - x ELSE x

Max(a, b) == IF a >= b THEN a ELSE b

\* F(e) with e evaluated once: the bound variable of a set constructor holds
\* a value, where an operator argument or a LET definition is evaluated at
\* each of its uses
With(e, F(_)) == CHOOSE y \in {F(x) : x \in {e}} : TRUE

Reverse(s) == [i \in 1..Len(s) |-> s[Len(s) + 1 - i]]

RemoveAt(s, i) == [j \in 1..(Len(s) - 1) |-> IF j < i THEN s[j] ELSE s[j + 1]]

ReplaceAt(s, i, v) == [s EXCEPT ![i] = v]

\* index of the first occurrence of v in s, Len(s)+1 when absent
RECURSIVE IndexFrom(_, _, _)
IndexFrom(s, v, i) ==
    IF i > Len(s) THEN i
    ELSE IF s[i] = v THEN i
    ELSE IndexFrom(s, v, i + 1)

IndexOf(s, v) == IndexFrom(s, v, 1)

\* ------------------------------------------------------------------------
\* Map2D (map2d.hxx, positionedmap.hxx): vectors_ is a multimap from the
\* first coordinate to the point, here the sequence of its entries in
\* iteration order; iterators are positions, end() is Len + 1
\* ------------------------------------------------------------------------
MaxPoints == 3

squaredNorm(a, b) ==
    (a[1] - b[1]) * (a[1] - b[1]) + (a[2] - b[2]) * (a[2] - b[2])

\* vectors_.lower_bound(x): the first entry whose key is not less than x
RECURSIVE lower_bound(_, _, _)
lower_bound(vectors, x, i) ==
    IF i > Len(vectors) \/ vectors[i][1] >= x THEN i
    ELSE lower_bound(vectors, x, i + 1)

\* vectors_.upper_bound(x): the first entry whose key is greater than x
RECURSIVE upper_bound(_, _, _)
upper_bound(vectors, x, i) ==
    IF i > Len(vectors) \/ vectors[i][1] > x THEN i
    ELSE upper_bound(vectors, x, i + 1)

\* Map2D::insert: a multimap puts an entry behind the entries of equal key
Map2DInsert(vectors, p) ==
    With(upper_bound(vectors, p[1], 1), LAMBDA i :
      SubSeq(vectors, 1, i - 1) \o <<p>> \o SubSeq(vectors, i, Len(vectors)))

\* the first loop of search, from midPos up: [nearestPos, maxSquaredDist]
RECURSIVE SearchUp(_, _, _, _, _)
SearchUp(vectors, it, v, nearestPos, maxSquaredDist) ==
    IF it = Len(vectors) + 1
    THEN [nearestPos |-> nearestPos, maxSquaredDist |-> maxSquaredDist]
    ELSE IF (vectors[it][1] - v[1]) * (vectors[it][1] - v[1]) > maxSquaredDist
    THEN [nearestPos |-> nearestPos, maxSquaredDist |-> maxSquaredDist]
    ELSE With(squaredNorm(vectors[it], v), LAMBDA dist2 :
           IF dist2 < maxSquaredDist
           THEN SearchUp(vectors, it + 1, v, it, dist2)
           ELSE SearchUp(vectors, it + 1, v, nearestPos, maxSquaredDist))

\* the second loop of search, from --midPos down to begin
RECURSIVE SearchDown(_, _, _, _, _)
SearchDown(vectors, it, v, nearestPos, maxSquaredDist) ==
    IF (v[1] - vectors[it][1]) * (v[1] - vectors[it][1]) > maxSquaredDist
    THEN nearestPos
    ELSE With(squaredNorm(vectors[it], v), LAMBDA dist2 :
           With(IF dist2 < maxSquaredDist
                THEN [nearestPos |-> it, maxSquaredDist |-> dist2]
                ELSE [nearestPos |-> nearestPos,
                      maxSquaredDist |-> maxSquaredDist],
             LAMBDA b :
               IF it = 1 THEN b.nearestPos
               ELSE SearchDown(vectors, it - 1, v, b.nearestPos,
                               b.maxSquaredDist)))

\* search without the second loop
searchUpwardsOnly(vectors, midPos, v, maxSquaredDist) ==
    SearchUp(vectors, midPos, v, Len(vectors) + 1, maxSquaredDist).nearestPos

\* Map2D::search(begin, midPos, end, v, maxSquaredDist)
search(vectors, midPos, v, maxSquaredDist) ==
    With(SearchUp(vectors, midPos, v, Len(vectors) + 1, maxSquaredDist),
      LAMBDA up :
        IF midPos = 1 THEN up.nearestPos
        ELSE SearchDown(vectors, midPos - 1, v, up.nearestPos,
                        up.maxSquaredDist))

\* Map2D::nearest(v, maxSquaredDist)
nearest(vectors, v, maxSquaredDist) ==
    search(vectors, lower_bound(vectors, v[1], 1), v, maxSquaredDist)

\* vigra::NumericTraits<double>::epsilon() as a squared radius: between
\* points with integer coordinates only squared distance 0 is below it,
\* as it is below 1
Epsilon == 1

\* nodeMap_.erase(nodeMap_.nearest(PositionedNodeLabel(position, label),
\* epsilon)): the entry the search finds is erased, whatever its label;
\* entries are <<x, y, label>>
NodeMapErase(vectors, position) ==
    With(nearest(vectors, position, Epsilon), LAMBDA it :
      IF it > Len(vectors) THEN vectors ELSE RemoveAt(vectors, it))

\* ------------------------------------------------------------------------
\* cells
\* ------------------------------------------------------------------------
NullNode == [live |-> FALSE, pos |-> <<0, 0>>, darts |-> <<>>]

NullEdge == [live |-> FALSE, start |-> 0, end |-> 0,
             left |-> UNINITIALIZED_CELL_LABEL,
             right |-> UNINITIALIZED_CELL_LABEL, points |-> <<>>]

NullFace == [live |-> FALSE, anchors |-> <<>>, area |-> 0,
             areaValid |-> FALSE, pixelArea |-> 0]

EmptyMap == [nodes |-> <<>>, edges |-> <<>>, faces |-> <<>>,
             nodeCount |-> 0, edgeCount |-> 0, faceCount |-> 0,
             labelImage |-> FALSE, faceLabelLUT |-> <<>>,
             imageSize |-> <<0, 0>>, pixels |-> <<>>, nodeMap |-> <<>>]

Ok(m) == [st |-> "ok", m |-> m]
Throw(m) == [st |-> "throw", m |-> m]
Undefined(m) == [st |-> "ub", m |-> m]

\* ------------------------------------------------------------------------
\* the label image
\* ------------------------------------------------------------------------
\* the pixels of an image of the given size
ImagePixels(size) == (0..(size[1] - 1)) \X (0..(size[2] - 1))

\* LabelImage(size, 0)
NewLabelImage(size) == [p \in ImagePixels(size) |-> 0]

\* the pixels of the image that the pixel-wide rasterization of the segment
\* from a to b covers: those of its bounding box whose centre is at most
\* half a pixel, along the minor axis, from the line
SegmentPixels(a, b, size) ==
    LET dx == b[1] - a[1]
        dy == b[2] - a[2]
        lox == IF dx < 0 THEN b[1] ELSE a[1]
        hix == IF dx < 0 THEN a[1] ELSE b[1]
        loy == IF dy < 0 THEN b[2] ELSE a[2]
        hiy == IF dy < 0 THEN a[2] ELSE b[2]
    IN {p \in ImagePixels(size) :
          /\ lox <= p[1] /\ p[1] <= hix
          /\ loy <= p[2] /\ p[2] <= hiy
          /\ 2 * Abs((p[1] - a[1]) * dy - (p[2] - a[2]) * dx)
                <= Max(Abs(dx), Abs(dy))}

\* scanPoly(points, height), clipped to the image as every user of the
\* scanlines does: the pixels the poly-line covers
scanPoly(points, size) ==
    IF Len(points) = 1 THEN SegmentPixels(points[1], points[1], size)
    ELSE UNION {SegmentPixels(points[i], points[i + 1], size) :
                   i \in 1..(Len(points) - 1)}

\* rawAddEdgeToLabelImage(scanlines, labelImage, diff)
rawAddEdgeToLabelImage(scan, px, diff) ==
    [p \in DOMAIN px |-> IF p \in scan THEN px[p] + diff ELSE px[p]]

\* removeEdgeFromLabelImage(scanlines, labelImage, substituteLabel,
\* outputPixels): [pixels, out]
removeEdgeFromLabelImage(scan, px, substituteLabel) ==
    [pixels |-> [p \in DOMAIN px |->
                    IF p \notin scan THEN px[p]
                    ELSE IF px[p] # 0 - 1 THEN px[p] + 1
                    ELSE substituteLabel],
     out |-> {p \in scan : px[p] = 0 - 1}]

\* GeoMap::associatePixels(face, pixels)
associatePixels(m, f, out) ==
    [m EXCEPT !.faces[f + 1].pixelArea = @ + Cardinality(out)]

\* map.node(l), map.edge(l), map.face(l): the slot, NULL when out of range
NodeLive(m, l) == l \in 1..Len(m.nodes) /\ m.nodes[l].live
EdgeLive(m, l) == l \in 1..Len(m.edges) /\ m.edges[l].live
FaceLive(m, l) == l \in 0..(Len(m.faces) - 1) /\ m.faces[l + 1].live

FaceOf(m, l) == m.faces[l + 1]

\* twice Polygon::partialArea of a point sequence
RECURSIVE PartialArea2(_)
PartialArea2(p) ==
    IF Len(p) < 2 THEN 0
    ELSE p[1][1] * p[2][2] - p[2][1] * p[1][2] + PartialArea2(Tail(p))

\* Polygon::extend: append, the shared joint point only once
Extend(p, q) ==
    IF p # <<>> /\ q # <<>> /\ p[Len(p)] = q[1] THEN p \o Tail(q) ELSE p \o q

\* ------------------------------------------------------------------------
\* GeoMap::Dart
\* ------------------------------------------------------------------------
edgeLabel(d) == Abs(d)

\* guaranteedEdge() succeeds
DartOk(m, d) == d # 0 /\ EdgeLive(m, edgeLabel(d))

startNodeLabel(m, d) ==
    IF d > 0 THEN m.edges[edgeLabel(d)].start ELSE m.edges[edgeLabel(d)].end

endNodeLabel(m, d) ==
    IF d > 0 THEN m.edges[edgeLabel(d)].end ELSE m.edges[edgeLabel(d)].start

leftFaceLabel(m, d) ==
    IF d > 0 THEN m.edges[edgeLabel(d)].left ELSE m.edges[edgeLabel(d)].right

rightFaceLabel(m, d) ==
    IF d > 0 THEN m.edges[edgeLabel(d)].right ELSE m.edges[edgeLabel(d)].left

setLeftFaceLabel(m, d, l) ==
    IF d > 0 THEN [m EXCEPT !.edges[edgeLabel(d)].left = l]
    ELSE [m EXCEPT !.edges[edgeLabel(d)].right = l]

dartPartialArea2(m, d) ==
    IF d > 0 THEN PartialArea2(m.edges[edgeLabel(d)].points)
    ELSE 0 - PartialArea2(m.edges[edgeLabel(d)].points)

nextAlpha(d) == 0 - d

\* Dart::nextSigma(times): throws on a removed edge or a dart missing from
\* its start node, dereferences NULL when the start node was removed
nextSigma(m, d, times) ==
    IF ~DartOk(m, d) THEN DartThrows
    ELSE IF ~NodeLive(m, startNodeLabel(m, d)) THEN DartUndefined
    ELSE LET darts == m.nodes[startNodeLabel(m, d)].darts
             i == IndexOf(darts, d)
         IN IF i > Len(darts) THEN DartThrows
            ELSE darts[((i - 1 + times) % Len(darts)) + 1]

prevSigma(m, d) == nextSigma(m, d, 0 - 1)

nextPhi(m, d) == prevSigma(m, nextAlpha(d))

\* number of darts a contour walk may visit before it is known to cycle
WalkFuel(m) == 2 * Len(m.edges) + 1

\* twice contourArea(dart): the partial areas of the non-bridge darts of the
\* phi-orbit; [st, v]
RECURSIVE ContourAreaFrom(_, _, _, _, _)
ContourAreaFrom(m, d, start, acc, fuel) ==
    IF ~DartOk(m, d) THEN [st |-> "throw", v |-> 0]
    ELSE With(<<nextPhi(m, d),
                IF m.edges[edgeLabel(d)].left = m.edges[edgeLabel(d)].right
                THEN acc ELSE acc + dartPartialArea2(m, d)>>,
              LAMBDA q :
                IF q[1] = DartThrows THEN [st |-> "throw", v |-> 0]
                ELSE IF q[1] = DartUndefined \/ fuel = 0
                THEN [st |-> "ub", v |-> 0]
                ELSE IF q[1] = start THEN [st |-> "ok", v |-> q[2]]
                ELSE ContourAreaFrom(m, q[1], start, q[2], fuel - 1))

contourArea(m, dart) == ContourAreaFrom(m, dart, dart, 0, WalkFuel(m))

\* sum of contourArea over anchors i..Len; [st, v]
RECURSIVE AnchorAreas(_, _, _)
AnchorAreas(m, anchors, i) ==
    IF i > Len(anchors) THEN [st |-> "ok", v |-> 0]
    ELSE With(contourArea(m, anchors[i]), LAMBDA c :
           IF c.st # "ok" THEN c
           ELSE With(AnchorAreas(m, anchors, i + 1), LAMBDA r :
                  IF r.st # "ok" THEN r
                  ELSE [st |-> "ok", v |-> c.v + r.v]))

\* Face::area(): the cached value, computed and cached on first use;
\* [st, m, v] where m carries the filled cache
FaceArea(m, f) ==
    IF ~FaceLive(m, f) THEN [st |-> "ub", m |-> m, v |-> 0]
    ELSE IF FaceOf(m, f).areaValid
    THEN [st |-> "ok", m |-> m, v |-> FaceOf(m, f).area]
    ELSE With(AnchorAreas(m, FaceOf(m, f).anchors, 1), LAMBDA r :
           IF r.st # "ok" THEN [st |-> r.st, m |-> m, v |-> 0]
           ELSE [st |-> "ok",
                 m |-> [m EXCEPT !.faces[f + 1].area = r.v,
                                 !.faces[f + 1].areaValid = TRUE],
                 v |-> r.v])

\* does the phi-orbit of anchor a reach dart (the anchor itself excluded by
\* the first loop of findComponentAnchor)?  "found", "absent", "throw", "ub"
RECURSIVE OrbitSearch(_, _, _, _, _)
OrbitSearch(m, d, a, dart, fuel) ==
    With(nextPhi(m, d), LAMBDA n :
      IF n = DartThrows THEN "throw"
      ELSE IF n = DartUndefined \/ fuel = 0 THEN "ub"
      ELSE IF n = a THEN "absent"
      ELSE IF n = dart THEN "found"
      ELSE OrbitSearch(m, n, a, dart, fuel - 1))

RECURSIVE ComponentSearch(_, _, _, _)
ComponentSearch(m, anchors, dart, i) ==
    IF i > Len(anchors) THEN [st |-> "throw", i |-> 0]
    ELSE With(OrbitSearch(m, anchors[i], anchors[i], dart, WalkFuel(m)),
              LAMBDA r :
                IF r = "found" THEN [st |-> "ok", i |-> i]
                ELSE IF r = "absent"
                THEN ComponentSearch(m, anchors, dart, i + 1)
                ELSE [st |-> r, i |-> 0])

\* Face::findComponentAnchor: index (from 1) of the anchor whose contour
\* holds dart; [st, i]
findComponentAnchor(m, f, dart) ==
    With(IndexOf(FaceOf(m, f).anchors, dart), LAMBDA i :
      IF i <= Len(FaceOf(m, f).anchors) THEN [st |-> "ok", i |-> i]
      ELSE ComponentSearch(m, FaceOf(m, f).anchors, dart, 1))

\* ------------------------------------------------------------------------
\* uninitialize
\* ------------------------------------------------------------------------
NodeUninitialize(m, n) ==
    [m EXCEPT !.nodes[n] = NullNode, !.nodeCount = m.nodeCount - 1,
              !.nodeMap = NodeMapErase(@, m.nodes[n].pos)]

EdgeUninitialize(m, e) ==
    [m EXCEPT !.edges[e] = NullEdge, !.edgeCount = m.edgeCount - 1]

\* Face::uninitialize without --map->faceCount_
FaceUninitializeKeepsCount(m, f) ==
    [m EXCEPT !.faces[f + 1] = NullFace]

FaceUninitialize(m, f) ==
    [m EXCEPT !.faces[f + 1] = NullFace, !.faceCount = m.faceCount - 1]

\* hook answers of one call: pre = every pre-hook returns true,
\* removeNode = every removeNode hook returns true
NoVeto == [pre |-> TRUE, removeNode |-> TRUE]

\* GeoMap::removeIsolatedNode(Node &): the removeNode hooks are called and
\* their answers dropped, the degree is not looked at
removeIsolatedNode(m, n, h) ==
    IF ~NodeLive(m, n) THEN Undefined(m)
    ELSE Ok(NodeUninitialize(m, n))

\* GeoMap::Node::setPosition(p) of node n: position_ = p, then the loop over
\* darts_ takes the loop index i for the dart label, so that its first
\* round, i = 0, goes through *map_->edge(0), the NULL slot edges_[0]
setPosition(m, n, p) ==
    IF ~NodeLive(m, n) THEN Throw(m)
    ELSE With([m EXCEPT !.nodes[n].pos = p,
                        !.nodeMap =
                            Map2DInsert(NodeMapErase(@, m.nodes[n].pos),
                                        <<p[1], p[2], n>>)],
           LAMBDA m1 :
             IF m1.nodes[n].darts = <<>> THEN Ok(m1) ELSE Undefined(m1))

\* mergeEdges, anchor update: the first anchor of face f that lies on edge e
\* is moved one phi step
AdvanceAnchor(m, f, e) ==
    IF ~FaceLive(m, f) THEN Undefined(m)
    ELSE LET anchors == FaceOf(m, f).anchors
             hits == {i \in 1..Len(anchors) : edgeLabel(anchors[i]) = e}
         IN IF hits = {} THEN Ok(m)
            ELSE With(<<CHOOSE k \in hits : \A j \in hits : k <= j>>,
                   LAMBDA q :
                     With(nextPhi(m, anchors[q[1]]), LAMBDA n :
                       IF n = DartThrows THEN Throw(m)
                       ELSE IF n = DartUndefined THEN Undefined(m)
                       ELSE Ok([m EXCEPT !.faces[f + 1].anchors[q[1]] = n])))

\* mergeEdges, geometry and incidence of the survivor (d1's edge) once the
\* merged edge (d2's edge) is appended; cen is the far node of the merged edge
MergeGeometry(m, d1, d2, cen) ==
    LET s == edgeLabel(d1)
        g == edgeLabel(d2)
        n == startNodeLabel(m, d1)
        sp == m.edges[s].points
        gp == IF m.edges[g].start # n THEN Reverse(m.edges[g].points)
              ELSE m.edges[g].points
        np == IF m.edges[s].start # n THEN Extend(sp, gp)
              ELSE Reverse(Extend(Reverse(sp), gp))
        px == IF ~m.labelImage THEN m.pixels
              ELSE rawAddEdgeToLabelImage(
                     scanPoly(np, m.imageSize),
                     rawAddEdgeToLabelImage(
                       scanPoly(sp, m.imageSize),
                       rawAddEdgeToLabelImage(
                         scanPoly(m.edges[g].points, m.imageSize),
                         m.pixels, 0 - 1),
                       0 - 1),
                     1)
    IN IF m.edges[s].start # n
       THEN [m EXCEPT !.edges[s].points = np,
                      !.edges[s].end = cen,
                      !.pixels = px]
       ELSE [m EXCEPT !.edges[s].points = np,
                      !.edges[s].start = cen,
                      !.pixels = px]

\* mergeEdges that takes the merged edge's dart out of the far node's list
\* and puts the survivor's dart at the end of it
MergeEdgesCommitAppends(m2, d1, d2) ==
    LET d == nextAlpha(d2)
        cen == startNodeLabel(m2, d)
        mergedNode == startNodeLabel(m2, d1)
    IN IF ~NodeLive(m2, cen) THEN [st |-> "ub", m |-> m2, ret |-> 0]
       ELSE LET cenDartIndex == IndexOf(m2.nodes[cen].darts, d)
            IN IF cenDartIndex > Len(m2.nodes[cen].darts)
               THEN [st |-> "throw", m |-> m2, ret |-> 0]
               ELSE With(MergeGeometry(m2, d1, d2, cen), LAMBDA m3 :
                      [st |-> "ok",
                       m |-> EdgeUninitialize(
                               NodeUninitialize(
                                 [m3 EXCEPT
                                    !.nodes[cen].darts =
                                        Append(RemoveAt(@, cenDartIndex), d1)],
                                 mergedNode),
                               edgeLabel(d2)),
                       ret |-> edgeLabel(d1)])

\* mergeEdges once the anchors are moved (m2) and the hooks have agreed
MergeEdgesCommit(m2, d1, d2) ==
    LET d == nextAlpha(d2)
        cen == startNodeLabel(m2, d)
        mergedNode == startNodeLabel(m2, d1)
    IN IF ~NodeLive(m2, cen) THEN [st |-> "ub", m |-> m2, ret |-> 0]
       ELSE LET cenDartIndex == IndexOf(m2.nodes[cen].darts, d)
            IN IF cenDartIndex > Len(m2.nodes[cen].darts)
               THEN [st |-> "throw", m |-> m2, ret |-> 0]
               ELSE With(MergeGeometry(m2, d1, d2, cen), LAMBDA m3 :
                      [st |-> "ok",
                       m |-> EdgeUninitialize(
                               NodeUninitialize(
                                 [m3 EXCEPT
                                    !.nodes[cen].darts[cenDartIndex] = d1],
                                 mergedNode),
                               edgeLabel(d2)),
                       ret |-> edgeLabel(d1)])

\* mergeEdges with the roles exchanged: survivor = *d2.edge(), the edge of
\* the given dart, and mergedEdge = *d1.edge()
mergeEdgesBodyKeepsDartsEdge(m, dart, d1, d2, h) ==
    With(AdvanceAnchor(m, leftFaceLabel(m, dart), edgeLabel(d1)), LAMBDA a1 :
      IF a1.st # "ok" THEN [st |-> a1.st, m |-> a1.m, ret |-> 0]
      ELSE With(AdvanceAnchor(a1.m, rightFaceLabel(m, dart), edgeLabel(d1)),
             LAMBDA a2 :
               IF a2.st # "ok" THEN [st |-> a2.st, m |-> a2.m, ret |-> 0]
               ELSE IF ~h.pre \/ ~h.removeNode
               THEN [st |-> "throw", m |-> a2.m, ret |-> 0]
               ELSE MergeEdgesCommit(a2.m, d2, d1)))

\* GeoMap::mergeEdges(dart): [st, m, ret] with ret the label of the
\* returned (surviving) edge
mergeEdgesBody(m, dart, d1, d2, h) ==
    With(AdvanceAnchor(m, leftFaceLabel(m, dart), edgeLabel(d2)), LAMBDA a1 :
      IF a1.st # "ok" THEN [st |-> a1.st, m |-> a1.m, ret |-> 0]
      ELSE With(AdvanceAnchor(a1.m, rightFaceLabel(m, dart), edgeLabel(d2)),
             LAMBDA a2 :
               IF a2.st # "ok" THEN [st |-> a2.st, m |-> a2.m, ret |-> 0]
               ELSE IF ~h.pre \/ ~h.removeNode
               THEN [st |-> "throw", m |-> a2.m, ret |-> 0]
               ELSE MergeEdgesCommit(a2.m, d1, d2)))

mergeEdges(m, dart, h) ==
    With(nextSigma(m, dart, 1), LAMBDA d1 :
      IF d1 = DartThrows THEN [st |-> "throw", m |-> m, ret |-> 0]
      ELSE IF d1 = DartUndefined THEN [st |-> "ub", m |-> m, ret |-> 0]
      ELSE IF edgeLabel(d1) = edgeLabel(dart)
      THEN [st |-> "throw", m |-> m, ret |-> 0]
      ELSE With(nextSigma(m, d1, 1), LAMBDA d2 :
             IF d2 = DartUndefined THEN [st |-> "ub", m |-> m, ret |-> 0]
             ELSE IF d2 # dart THEN [st |-> "throw", m |-> m, ret |-> 0]
             ELSE mergeEdgesBody(m, dart, d1, d2, h)))

\* std::vector::erase(std::find(...)) on a node's dart list
EraseDart(m, n, d) ==
    [m EXCEPT !.nodes[n].darts = RemoveAt(@, IndexOf(@, d))]

\* removeBridge, "determine outer anchor, swap if necessary" (contourIndex
\* == 0): [st, swap]
BridgeSwap(m, dart, na1, na2) ==
    IF edgeLabel(na1) = edgeLabel(dart) THEN [st |-> "ok", swap |-> TRUE]
    ELSE IF edgeLabel(na2) = edgeLabel(dart) THEN [st |-> "ok", swap |-> FALSE]
    ELSE With(contourArea(m, na1), LAMBDA c1 :
           IF c1.st # "ok" THEN [st |-> c1.st, swap |-> FALSE]
           ELSE With(contourArea(m, na2), LAMBDA c2 :
                  IF c2.st # "ok" THEN [st |-> c2.st, swap |-> FALSE]
                  ELSE [st |-> "ok", swap |-> c1.v < c2.v]))

\* "remove singular nodes" that removes the node and keeps its anchor
RemoveSingularKeepsAnchor(r, f, dart, na, i, h) ==
    IF r.st # "ok" \/ edgeLabel(na) # edgeLabel(dart) THEN r
    ELSE removeIsolatedNode(r.m, startNodeLabel(r.m, na), h)

\* removeBridge, "remove singular nodes" for one of the two new anchors:
\* when the anchor still lies on the removed edge its start node is removed
\* and the anchor at index i is erased from the face
RemoveSingular(r, f, dart, na, i, h) ==
    IF r.st # "ok" \/ edgeLabel(na) # edgeLabel(dart) THEN r
    ELSE With(removeIsolatedNode(r.m, startNodeLabel(r.m, na), h), LAMBDA rn :
           IF rn.st # "ok" THEN rn
           ELSE Ok([rn.m EXCEPT !.faces[f + 1].anchors = RemoveAt(@, i)]))

\* removeEdgeFromLabelImage on the pixels of edge e with face f as the
\* substitute label: [pixels, out]; nothing without a label image
EdgeToFace(m, e, f) ==
    IF ~m.labelImage THEN [pixels |-> m.pixels, out |-> {}]
    ELSE removeEdgeFromLabelImage(scanPoly(m.edges[e].points, m.imageSize),
                                  m.pixels, f)

\* removeBridge from the new anchors on: m1 has the darts erased, ci is the
\* contour index, swap the outcome of BridgeSwap
RemoveBridgeAnchors(m1, dart, f, p1, p2, ci, swap, h) ==
    LET na1 == IF swap THEN p2 ELSE p1
        na2 == IF swap THEN p1 ELSE p2
    IN With(RemoveSingular(
              Ok([m1 EXCEPT !.faces[f + 1].anchors =
                                Append(ReplaceAt(@, ci, na1), na2)]),
              f, dart, na1, ci, h),
         LAMBDA r1 :
           With(RemoveSingular(r1, f, dart, na2,
                               Len(FaceOf(r1.m, f).anchors), h),
             LAMBDA r2 :
               IF r2.st # "ok" THEN [st |-> r2.st, m |-> r2.m, ret |-> 0]
               ELSE With(EdgeToFace(m1, edgeLabel(dart), f), LAMBDA rm :
                      With(EdgeUninitialize(
                             [r2.m EXCEPT !.pixels = rm.pixels],
                             edgeLabel(dart)),
                        LAMBDA m3 :
                          [st |-> "ok",
                           m |-> associatePixels(m3, f, rm.out),
                           ret |-> f,
                           post |-> m3]))))

removeBridgeBody(m, dart, f, h) ==
    With(<<prevSigma(m, dart), prevSigma(m, nextAlpha(dart))>>, LAMBDA p :
      IF p[1] = DartThrows \/ p[2] = DartThrows
      THEN [st |-> "throw", m |-> m, ret |-> 0]
      ELSE With(findComponentAnchor(m, f, dart), LAMBDA ci :
        IF ci.st # "ok" THEN [st |-> ci.st, m |-> m, ret |-> 0]
        ELSE With(EraseDart(EraseDart(m, startNodeLabel(m, dart), dart),
                            endNodeLabel(m, dart), nextAlpha(dart)),
               LAMBDA m1 :
                 With(IF ci.i = 1 THEN BridgeSwap(m1, dart, p[1], p[2])
                      ELSE [st |-> "ok", swap |-> FALSE],
                   LAMBDA sw :
                     IF sw.st # "ok" THEN [st |-> sw.st, m |-> m1, ret |-> 0]
                     ELSE RemoveBridgeAnchors(m1, dart, f, p[1], p[2],
                                              ci.i, sw.swap, h)))))

\* GeoMap::removeBridge(dart): [st, m, ret] with ret the label of the face
removeBridge(m, dart, h) ==
    IF ~DartOk(m, dart) THEN [st |-> "throw", m |-> m, ret |-> 0]
    ELSE LET f == leftFaceLabel(m, dart)
         IN IF ~FaceLive(m, f) \/ ~FaceLive(m, rightFaceLabel(m, dart))
            THEN [st |-> "ub", m |-> m, ret |-> 0]
            ELSE IF f # rightFaceLabel(m, dart)
            THEN [st |-> "throw", m |-> m, ret |-> 0]
            ELSE IF ~NodeLive(m, startNodeLabel(m, dart))
                    \/ ~NodeLive(m, endNodeLabel(m, dart))
            THEN [st |-> "ub", m |-> m, ret |-> 0]
            ELSE IF startNodeLabel(m, dart) = endNodeLabel(m, dart)
            THEN [st |-> "throw", m |-> m, ret |-> 0]
            ELSE IF ~h.pre THEN [st |-> "throw", m |-> m, ret |-> 0]
            ELSE removeBridgeBody(m, dart, f, h)

\* mergeFaces, "relabel contour's leftFaceLabel" for one anchor: from the
\* dart after d on, every dart of the phi-orbit gets left face sv until a
\* dart that already has it is met
RECURSIVE RelabelFrom(_, _, _, _)
RelabelFrom(m, d, sv, fuel) ==
    With(nextPhi(m, d), LAMBDA n :
      IF n = DartThrows THEN Throw(m)
      ELSE IF n = DartUndefined \/ fuel = 0 THEN Undefined(m)
      ELSE IF leftFaceLabel(m, n) = sv THEN Ok(m)
      ELSE With(setLeftFaceLabel(m, n, sv), LAMBDA m1 :
             RelabelFrom(m1, n, sv, fuel - 1)))

RECURSIVE RelabelContours(_, _, _, _)
RelabelContours(m, anchors, sv, i) ==
    IF i > Len(anchors) THEN Ok(m)
    ELSE With(RelabelFrom(m, anchors[i], sv, WalkFuel(m)), LAMBDA r :
           IF r.st # "ok" THEN r
           ELSE RelabelContours(r.m, anchors, sv, i + 1))

\* mergeFaces, "re-use an old anchor for the merged contour": the anchor
\* that replaces survivor.anchors[contour1]
ReuseAnchor(m, a, e, other) ==
    IF edgeLabel(a) # e THEN a
    ELSE With(nextPhi(m, a), LAMBDA a1 :
           IF ~IsDart(a1) \/ edgeLabel(a1) # e THEN a1
           ELSE IF edgeLabel(other) = e THEN nextPhi(m, other)
           ELSE other)

\* the anchors of the merged face except the one of the merged contour
OtherAnchors(anchors, c2) ==
    SelectSeq([i \in 1..Len(anchors) |-> <<i, anchors[i]>>],
              LAMBDA p : p[1] # c2)

AnchorsOnly(pairs) == [i \in 1..Len(pairs) |-> pairs[i][2]]

\* remove singular nodes without the test node2.label() != node1.label()
MergeFacesRemoveNodesTwice(m, node1, node2, h) ==
    LET removeNode1 == Len(m.nodes[node1].darts) = 0
    IN With(IF Len(m.nodes[node2].darts) = 0
            THEN removeIsolatedNode(m, node2, h)
            ELSE Ok(m),
         LAMBDA r2 :
           IF r2.st # "ok" THEN r2
           ELSE IF removeNode1 THEN removeIsolatedNode(r2.m, node1, h)
           ELSE r2)

\* mergeFaces, "remove singular nodes" after the darts were erased
MergeFacesRemoveNodes(m, node1, node2, h) ==
    LET removeNode1 == Len(m.nodes[node1].darts) = 0
    IN With(IF Len(m.nodes[node2].darts) = 0 /\ node2 # node1
            THEN removeIsolatedNode(m, node2, h)
            ELSE Ok(m),
         LAMBDA r2 :
           IF r2.st # "ok" THEN r2
           ELSE IF removeNode1 THEN removeIsolatedNode(r2.m, node1, h)
           ELSE r2)

\* mergeFaces, "relabel region in image" with the entries of faceLabelLUT_
\* left as they are
RelabelFaceLUTSkipped(m, mf, sv) == m

\* mergeFaces, "relabel region in image": every entry of faceLabelLUT_ that
\* is the merged face becomes the survivor
RelabelFaceLUT(m, mf, sv) ==
    IF ~m.labelImage THEN m
    ELSE [m EXCEPT !.faceLabelLUT =
              [i \in 1..Len(m.faceLabelLUT) |->
                  IF m.faceLabelLUT[i] = mf THEN sv ELSE m.faceLabelLUT[i]]]

\* mergeFaces from the label image on: m2 has the contours relabelled and
\* the anchors of the survivor sv updated
MergeFacesCommit(m2, removedDart, sv, mf, h) ==
    LET e == edgeLabel(removedDart)
        node1 == startNodeLabel(m2, removedDart)
        node2 == endNodeLabel(m2, removedDart)
    IN IF ~NodeLive(m2, node1) \/ ~NodeLive(m2, node2)
       THEN [st |-> "ub", m |-> m2, ret |-> 0]
       ELSE With(EraseDart(EraseDart(RelabelFaceLUT(m2, mf, sv),
                                     node1, removedDart),
                           node2, nextAlpha(removedDart)),
         LAMBDA m3 :
           With(MergeFacesRemoveNodes(m3, node1, node2, h), LAMBDA rn :
             IF rn.st # "ok" THEN [st |-> rn.st, m |-> rn.m, ret |-> 0]
             ELSE With(FaceArea(rn.m, mf), LAMBDA ma :
               IF ma.st # "ok" THEN [st |-> ma.st, m |-> rn.m, ret |-> 0]
               ELSE With(EdgeToFace(m2, e, sv), LAMBDA rm :
                      With(FaceUninitialize(
                             EdgeUninitialize(
                               [ma.m EXCEPT
                                  !.faces[sv + 1].area =
                                      IF FaceOf(ma.m, sv).areaValid
                                      THEN @ + ma.v ELSE @,
                                  !.faces[sv + 1].pixelArea =
                                      @ + FaceOf(ma.m, mf).pixelArea,
                                  !.pixels = rm.pixels],
                               e),
                             mf),
                        LAMBDA m4 :
                          [st |-> "ok",
                           m |-> associatePixels(m4, sv, rm.out),
                           ret |-> sv,
                           post |-> m4])))))

\* mergeFaces that keeps the anchor of a contour that degenerated to a node
MergeFacesAnchorsKeepsDegenerate(m1, removedDart, sv, mf, c1, c2, h) ==
    LET e == edgeLabel(removedDart)
    IN With(ReuseAnchor(m1, FaceOf(m1, sv).anchors[c1], e,
                        FaceOf(m1, mf).anchors[c2]),
         LAMBDA a :
           IF a = DartThrows THEN [st |-> "throw", m |-> m1, ret |-> 0]
           ELSE IF a = DartUndefined THEN [st |-> "ub", m |-> m1, ret |-> 0]
           ELSE IF edgeLabel(a) = e
                   /\ startNodeLabel(m1, removedDart)
                          # endNodeLabel(m1, removedDart)
           THEN [st |-> "throw", m |-> m1, ret |-> 0]
           ELSE With([m1 EXCEPT !.faces[sv + 1].anchors =
                        ReplaceAt(FaceOf(m1, sv).anchors, c1, a)
                        \o AnchorsOnly(
                             OtherAnchors(FaceOf(m1, mf).anchors, c2))],
                  LAMBDA m2 : MergeFacesCommit(m2, removedDart, sv, mf, h)))

\* mergeFaces from the anchor update on: m1 has the contours relabelled,
\* c1 and c2 are the contour indices of the removed edge in sv and mf
MergeFacesAnchors(m1, removedDart, sv, mf, c1, c2, h) ==
    LET e == edgeLabel(removedDart)
    IN With(ReuseAnchor(m1, FaceOf(m1, sv).anchors[c1], e,
                        FaceOf(m1, mf).anchors[c2]),
         LAMBDA a :
           IF a = DartThrows THEN [st |-> "throw", m |-> m1, ret |-> 0]
           ELSE IF a = DartUndefined THEN [st |-> "ub", m |-> m1, ret |-> 0]
           ELSE IF edgeLabel(a) = e
                   /\ startNodeLabel(m1, removedDart)
                          # endNodeLabel(m1, removedDart)
           THEN [st |-> "throw", m |-> m1, ret |-> 0]
           ELSE With([m1 EXCEPT !.faces[sv + 1].anchors =
                        (IF edgeLabel(a) = e
                         THEN RemoveAt(FaceOf(m1, sv).anchors, c1)
                         ELSE ReplaceAt(FaceOf(m1, sv).anchors, c1, a))
                        \o AnchorsOnly(
                             OtherAnchors(FaceOf(m1, mf).anchors, c2))],
                  LAMBDA m2 : MergeFacesCommit(m2, removedDart, sv, mf, h)))

mergeFacesBody(m, dart, removedDart, sv, mf, h) ==
    With(findComponentAnchor(m, sv, removedDart), LAMBDA c1 :
      IF c1.st # "ok" THEN [st |-> c1.st, m |-> m, ret |-> 0]
      ELSE With(findComponentAnchor(m, mf, nextAlpha(removedDart)),
        LAMBDA c2 :
          IF c2.st # "ok" THEN [st |-> c2.st, m |-> m, ret |-> 0]
          ELSE IF ~h.pre THEN [st |-> "throw", m |-> m, ret |-> 0]
          ELSE With(RelabelContours(m, FaceOf(m, mf).anchors, sv, 1),
            LAMBDA rl :
              IF rl.st # "ok" THEN [st |-> rl.st, m |-> rl.m, ret |-> 0]
              ELSE MergeFacesAnchors(rl.m, removedDart, sv, mf,
                                     c1.i, c2.i, h))))

\* mergeFaces without "face 0 shall stay face 0": the smaller face is merged
\* into the larger whichever the faces are
MergeFacesChooseByAreaOnly(m, dart, leftArea, rightArea, h) ==
    LET removedDart == IF leftArea < rightArea THEN nextAlpha(dart) ELSE dart
        sv == leftFaceLabel(m, removedDart)
        mf == rightFaceLabel(m, removedDart)
    IN IF sv = mf THEN [st |-> "throw", m |-> m, ret |-> 0]
       ELSE mergeFacesBody(m, dart, removedDart, sv, mf, h)

\* mergeFaces once both areas are known: the smaller face is merged into
\* the larger, the infinite face always survives
MergeFacesChoose(m, dart, leftArea, rightArea, h) ==
    LET rd1 == IF leftArea < rightArea THEN nextAlpha(dart) ELSE dart
        removedDart == IF rightFaceLabel(m, rd1) = 0 THEN nextAlpha(rd1)
                       ELSE rd1
        sv == leftFaceLabel(m, removedDart)
        mf == rightFaceLabel(m, removedDart)
    IN IF sv = mf THEN [st |-> "throw", m |-> m, ret |-> 0]
       ELSE mergeFacesBody(m, dart, removedDart, sv, mf, h)

\* GeoMap::mergeFaces(dart): [st, m, ret] with ret the label of the survivor
mergeFaces(m, dart, h) ==
    IF ~DartOk(m, dart) THEN [st |-> "throw", m |-> m, ret |-> 0]
    ELSE With(FaceArea(m, leftFaceLabel(m, dart)), LAMBDA la :
           IF la.st # "ok" THEN [st |-> la.st, m |-> la.m, ret |-> 0]
           ELSE With(FaceArea(la.m, rightFaceLabel(m, dart)), LAMBDA ra :
                  IF ra.st # "ok" THEN [st |-> ra.st, m |-> ra.m, ret |-> 0]
                  ELSE MergeFacesChoose(ra.m, dart, la.v, ra.v, h)))

\* ------------------------------------------------------------------------
\* construction: addNode, addEdge, sortEdgesDirectly, initContours,
\* embedFaces
\* ------------------------------------------------------------------------
\* Node constructor via GeoMap::addNode
addNode(m, pos) ==
    [m EXCEPT !.nodes = Append(@, [live |-> TRUE, pos |-> pos, darts |-> <<>>]),
              !.nodeCount = @ + 1,
              !.nodeMap = Map2DInsert(@, <<pos[1], pos[2], Len(m.nodes) + 1>>)]

\* GeoMap::nearestNode(position, maxSquaredDist): the label in the entry
\* found, whose node (live or not) is returned; 0 when there is none
nearestNode(m, position, maxSquaredDist) ==
    With(nearest(m.nodeMap, position, maxSquaredDist), LAMBDA n :
      IF n > Len(m.nodeMap) THEN 0 ELSE m.nodeMap[n][3])

\* GeoMap::addEdge with the default label; [st, m]
addEdge(m, s, e, points) ==
    IF ~NodeLive(m, s) \/ ~NodeLive(m, e) THEN Throw(m)
    ELSE LET l == Len(m.edges) + 1
             m1 == [m EXCEPT !.edges = Append(@,
                        [live |-> TRUE, start |-> s, end |-> e,
                         left |-> UNINITIALIZED_CELL_LABEL,
                         right |-> UNINITIALIZED_CELL_LABEL,
                         points |-> points]),
                      !.edgeCount = @ + 1]
             m2 == [m1 EXCEPT !.nodes[s].darts = Append(@, l)]
         IN Ok([m2 EXCEPT !.nodes[e].darts = Append(@, 0 - l)])

\* Dart::operator[](index), index from 0
DartPoint(m, d, index) ==
    LET p == m.edges[edgeLabel(d)].points
    IN IF d > 0 THEN p[index + 1] ELSE p[Len(p) - index]

\* the direction sortEdgesDirectly hands to angleTheta(dy, dx): <<dx, dy>>
\* with dy = -d[1][1] + d[0][1]
DartDirection(m, d) ==
    <<DartPoint(m, d, 1)[1] - DartPoint(m, d, 0)[1],
      DartPoint(m, d, 0)[2] - DartPoint(m, d, 1)[2]>>

\* position of a direction on the circle of angles (-pi, pi]
AngleSector(v) ==
    IF v[2] < 0 THEN 0
    ELSE IF v[2] = 0 /\ v[1] >= 0 THEN 1
    ELSE IF v[2] > 0 THEN 2
    ELSE 3

\* angleTheta(a) < angleTheta(b)
AngleLess(a, b) ==
    IF AngleSector(a) # AngleSector(b) THEN AngleSector(a) < AngleSector(b)
    ELSE a[1] * b[2] - a[2] * b[1] > 0

\* std::pair<double, int> operator< on (angle, dart label)
DartAngleLess(m, d1, d2) ==
    \/ AngleLess(DartDirection(m, d1), DartDirection(m, d2))
    \/ /\ ~AngleLess(DartDirection(m, d2), DartDirection(m, d1))
       /\ d1 < d2

\* the darts of one node in ascending (angle, label) order
SortDarts(m, darts) ==
    [i \in 1..Len(darts) |->
        CHOOSE d \in {darts[j] : j \in 1..Len(darts)} :
            Cardinality({j \in 1..Len(darts) :
                            DartAngleLess(m, darts[j], d)}) = i - 1]

\* GeoMap::sortEdgesDirectly
sortEdgesDirectly(m) ==
    [m EXCEPT !.nodes = [n \in 1..Len(m.nodes) |->
        IF m.nodes[n].live
        THEN [m.nodes[n] EXCEPT !.darts = SortDarts(m, @)]
        ELSE m.nodes[n]]]

\* Face constructor, labelling loop: darts of the phi-orbit get the label
\* while their left face is still uninitialized
RECURSIVE LabelContour(_, _, _, _)
LabelContour(m, d, l, fuel) ==
    IF fuel = 0 \/ ~DartOk(m, d) \/ leftFaceLabel(m, d) # UNINITIALIZED_CELL_LABEL
    THEN m
    ELSE With(<<setLeftFaceLabel(m, d, l), nextPhi(m, d)>>, LAMBDA q :
           LabelContour(q[1], q[2], l, fuel - 1))

\* Face constructor that labels the anchor alone, not its phi-orbit
newFaceLabelsAnchorOnly(m, anchor) ==
    LET l == Len(m.faces)
    IN With([m EXCEPT !.faces = Append(@,
                [live |-> TRUE,
                 anchors |-> IF l = 0 THEN <<>> ELSE <<anchor>>,
                 area |-> 0, areaValid |-> FALSE, pixelArea |-> 0]),
              !.faceCount = @ + 1],
         LAMBDA m1 :
           IF l = 0 THEN m1 ELSE LabelContour(m1, anchor, l, 1))

\* Face constructor
newFace(m, anchor) ==
    LET l == Len(m.faces)
    IN With([m EXCEPT !.faces = Append(@,
                [live |-> TRUE,
                 anchors |-> IF l = 0 THEN <<>> ELSE <<anchor>>,
                 area |-> 0, areaValid |-> FALSE, pixelArea |-> 0]),
              !.faceCount = @ + 1],
         LAMBDA m1 :
           IF l = 0 THEN m1
           ELSE LabelContour(m1, anchor, l, WalkFuel(m) + 1))

\* GeoMap::initContours, the loop over the edges from label e on
RECURSIVE ContoursFrom(_, _)
ContoursFrom(m, e) ==
    IF e > Len(m.edges) THEN m
    ELSE IF ~m.edges[e].live THEN ContoursFrom(m, e + 1)
    ELSE With(IF m.edges[e].left = UNINITIALIZED_CELL_LABEL
              THEN newFace(m, e) ELSE m,
           LAMBDA m1 :
             With(IF m1.edges[e].right = UNINITIALIZED_CELL_LABEL
                  THEN newFace(m1, 0 - e) ELSE m1,
               LAMBDA m2 : ContoursFrom(m2, e + 1)))

\* GeoMap::initContours; [st, m]
initContours(m) ==
    IF Len(m.faces) # 0 THEN Throw(m)
    ELSE With(newFace(m, 0), LAMBDA m1 : Ok(ContoursFrom(m1, 1)))

\* the darts of the phi-orbit of anchor, in walking order
RECURSIVE OrbitFrom(_, _, _, _)
OrbitFrom(m, d, start, fuel) ==
    With(nextPhi(m, d), LAMBDA n :
      IF ~IsDart(n) \/ n = start \/ fuel = 0 THEN <<d>>
      ELSE <<d>> \o OrbitFrom(m, n, start, fuel - 1))

ContourDarts(m, anchor) == OrbitFrom(m, anchor, anchor, WalkFuel(m))

\* the points of a dart in dart direction
DartPoints(m, d) ==
    IF d > 0 THEN m.edges[edgeLabel(d)].points
    ELSE Reverse(m.edges[edgeLabel(d)].points)

RECURSIVE FlattenTails(_, _)
FlattenTails(m, darts) ==
    IF darts = <<>> THEN <<>>
    ELSE Tail(DartPoints(m, Head(darts))) \o FlattenTails(m, Tail(darts))

\* the points ContourPointIter(anchor) yields: every dart's points but its
\* first
ContourPoints(m, anchor) ==
    With(ContourDarts(m, anchor), LAMBDA darts : FlattenTails(m, darts))

RECURSIVE ExtendAll(_, _, _)
ExtendAll(m, darts, acc) ==
    IF darts = <<>> THEN acc
    ELSE With(Extend(acc, DartPoints(m, Head(darts))), LAMBDA acc1 :
           ExtendAll(m, Tail(darts), acc1))

\* contourPoly(anchor)
contourPoly(m, anchor) ==
    With(ContourDarts(m, anchor), LAMBDA darts : ExtendAll(m, darts, <<>>))

\* Polygon::contains by crossing number: the half line from p to the right
\* crosses the closed polygon an odd number of times
PolyCrosses(a, b, p) ==
    /\ (a[2] > p[2]) # (b[2] > p[2])
    /\ IF b[2] > a[2]
       THEN (p[1] - a[1]) * (b[2] - a[2]) < (b[1] - a[1]) * (p[2] - a[2])
       ELSE (p[1] - a[1]) * (b[2] - a[2]) > (b[1] - a[1]) * (p[2] - a[2])

PolyContains(poly, p) ==
    \E q \in {poly} :
        Cardinality({i \in 1..Len(q) :
            PolyCrosses(q[i], q[(i % Len(q)) + 1], p)}) % 2 = 1

\* Face::contains without label image
FaceContains(m, f, p) ==
    LET anchors == FaceOf(m, f).anchors
        first == IF f = 0 THEN 1 ELSE 2
    IN /\ f # 0 => PolyContains(contourPoly(m, anchors[1]), p)
       /\ \A i \in first..Len(anchors) :
              ~PolyContains(contourPoly(m, anchors[i]), p)

\* embedFaces, search of the parent by Face::contains: the live faces are
\* tried in label order and every try consumes one contour point;
\* the label of the parent, -1 when none is found, -2 when the point
\* iterator is read behind its end
RECURSIVE ParentSearch(_, _, _, _)
ParentSearch(m, pts, i, f) ==
    IF f >= Len(m.faces)
    THEN IF i > Len(pts) THEN 0 - 1 ELSE ParentSearch(m, pts, i, 0)
    ELSE IF ~FaceLive(m, f) THEN ParentSearch(m, pts, i, f + 1)
    ELSE IF i > Len(pts) THEN 0 - 2
    ELSE IF FaceContains(m, f, pts[i]) THEN f
    ELSE ParentSearch(m, pts, i + 1, f + 1)

\* Face::embedContour, labelling loop
RECURSIVE EmbedLabel(_, _, _, _)
EmbedLabel(m, d, l, fuel) ==
    IF fuel = 0 \/ ~DartOk(m, d) \/ leftFaceLabel(m, d) = l THEN m
    ELSE With(<<setLeftFaceLabel(m, d, l), nextPhi(m, d)>>, LAMBDA q :
           EmbedLabel(q[1], q[2], l, fuel - 1))

\* Face::embedContour
embedContour(m, f, anchor) ==
    With([m EXCEPT !.faces[f + 1].anchors = Append(@, anchor)], LAMBDA m1 :
      With(EmbedLabel(m1, anchor, f, WalkFuel(m) + 1), LAMBDA m2 :
        IF FaceOf(m2, f).areaValid
        THEN [m2 EXCEPT !.faces[f + 1].area = @ + contourArea(m2, anchor).v]
        ELSE m2))

\* AbsAreaCompare on two areas
AbsAreaCompare(a1, a2) ==
    IF Abs(a1) = Abs(a2) /\ ((a1 < 0) # (a2 < 0)) THEN a1 < 0
    ELSE Abs(a1) > Abs(a2)

\* the contour labels ordered by AbsAreaCompare on the cached areas
SortContours(cm, labels) ==
    [i \in 1..Len(labels) |->
        CHOOSE l \in {labels[j] : j \in 1..Len(labels)} :
            Cardinality({j \in 1..Len(labels) :
                \/ AbsAreaCompare(FaceOf(cm, labels[j]).area, FaceOf(cm, l).area)
                \/ /\ ~AbsAreaCompare(FaceOf(cm, l).area,
                                      FaceOf(cm, labels[j]).area)
                   /\ labels[j] < l}) = i - 1]

\* contour.area() of every preliminary face, cached
RECURSIVE CacheAreas(_, _)
CacheAreas(m, f) ==
    IF f >= Len(m.faces) THEN m
    ELSE With(FaceArea(m, f).m, LAMBDA m1 : CacheAreas(m1, f + 1))

\* embedFaces on a contour of positive area with the label image:
\* fillScannedPoly writes the label into the pixels inside the contour and
\* returns their number, drawScannedPoly writes -1 into the pixels of the
\* contour itself; [pixels, count]
FillAndDraw(m, poly, l) ==
    LET scan == scanPoly(poly, m.imageSize)
        inside == {p \in DOMAIN m.pixels :
                      p \notin scan /\ PolyContains(poly, p)}
    IN [pixels |-> [p \in DOMAIN m.pixels |->
                       IF p \in scan THEN 0 - 1
                       ELSE IF p \in inside THEN l
                       ELSE m.pixels[p]],
        count |-> Cardinality(inside)]

\* embedFaces on a hole with the label image: the label under the first
\* contour point that lies in the image on a pixel >= 0; -1 when there is
\* none (or no label image)
RECURSIVE LabelImageParent(_, _, _)
LabelImageParent(m, pts, i) ==
    IF ~m.labelImage \/ i > Len(pts) THEN 0 - 1
    ELSE IF pts[i] \in DOMAIN m.pixels /\ m.pixels[pts[i]] >= 0
    THEN m.pixels[pts[i]]
    ELSE LabelImageParent(m, pts, i + 1)

\* embedFaces, the loop over the sorted contours; cm holds the preliminary
\* faces, m the face table under construction
RECURSIVE EmbedLoop(_, _, _, _)
EmbedLoop(m, cm, order, i) ==
    IF i > Len(order) THEN Ok(m)
    ELSE LET l == order[i]
             contour == FaceOf(cm, l)
             anchor == contour.anchors[1]
         IN IF contour.area > 0
            THEN With(IF m.labelImage
                      THEN FillAndDraw(m, contourPoly(m, anchor), l)
                      ELSE [pixels |-> m.pixels, count |-> 0],
                   LAMBDA fd :
                     With([m EXCEPT !.faces[l + 1] =
                                      [contour EXCEPT
                                         !.pixelArea =
                                            IF m.labelImage THEN fd.count
                                            ELSE @],
                                    !.faceLabelLUT =
                                        IF m.labelImage
                                        THEN [@ EXCEPT ![l + 1] = l] ELSE @,
                                    !.pixels = fd.pixels],
                       LAMBDA m1 : EmbedLoop(m1, cm, order, i + 1)))
            ELSE With(ContourPoints(m, anchor), LAMBDA pts :
                   With(IF LabelImageParent(m, pts, 1) >= 0
                        THEN LabelImageParent(m, pts, 1)
                        ELSE ParentSearch(m, pts, 1, 0), LAMBDA found :
                     IF found = 0 - 2 THEN Undefined(m)
                     ELSE With([embedContour(m,
                                   IF found = 0 - 1 THEN 0 ELSE found,
                                   anchor)
                                  EXCEPT !.faceCount = @ - 1],
                            LAMBDA m1 : EmbedLoop(m1, cm, order, i + 1))))

\* GeoMap::embedFaces(false); [st, m]
embedFaces(m) ==
    With(CacheAreas(m, 1), LAMBDA cm :
      With(<<[cm EXCEPT !.faces = [i \in 1..Len(m.faces) |->
                 IF i = 1 THEN cm.faces[1] ELSE NullFace]],
             SortContours(cm, [i \in 1..(Len(m.faces) - 1) |-> i])>>,
        LAMBDA q : EmbedLoop(q[1], cm, q[2], 1)))

\* GeoMap::embedFaces(true): the label image is allocated with all pixels
\* 0 and faceLabelLUT_ resized to faces_.size(), new entries 0. With an
\* image of size (0, 0) the parent of a hole is looked for with
\* Face::contains, the search the code falls back to
embedFacesLabelImage(m) ==
    embedFaces([m EXCEPT !.labelImage = TRUE,
                         !.faceLabelLUT = [i \in 1..Len(m.faces) |-> 0],
                         !.pixels = NewLabelImage(m.imageSize)])

\* the constructor GeoMap(nodePositions, edgeTuples, imageSize)
RECURSIVE AddNodes(_, _)
AddNodes(m, ps) ==
    IF ps = <<>> THEN m
    ELSE With(addNode(m, Head(ps)), LAMBDA m1 : AddNodes(m1, Tail(ps)))

RECURSIVE AddEdges(_, _)
AddEdges(m, es) ==
    IF es = <<>> THEN m
    ELSE With(addEdge(m, Head(es)[1], Head(es)[2], Head(es)[3]).m,
           LAMBDA m1 : AddEdges(m1, Tail(es)))

GeoMapInit(nodePositions, edgeTuples) ==
    With(AddNodes(EmptyMap, nodePositions), LAMBDA m0 :
      With(AddEdges(m0, edgeTuples), LAMBDA m1 :
        IF m1.edgeCount = 0 THEN m1
        ELSE With(sortEdgesDirectly(m1), LAMBDA m2 :
               With(initContours(m2).m, LAMBDA m3 : embedFaces(m3).m))))

\* the constructor where embedFaces() builds the label image
GeoMapInitLabelImage(nodePositions, edgeTuples) ==
    With(AddNodes(EmptyMap, nodePositions), LAMBDA m0 :
      With(AddEdges(m0, edgeTuples), LAMBDA m1 :
        IF m1.edgeCount = 0 THEN m1
        ELSE With(sortEdgesDirectly(m1), LAMBDA m2 :
               With(initContours(m2).m, LAMBDA m3 :
                 embedFacesLabelImage(m3).m))))

\* the constructor with an image size other than (0, 0)
GeoMapInitImage(nodePositions, edgeTuples, imageSize) ==
    With(AddNodes([EmptyMap EXCEPT !.imageSize = imageSize], nodePositions),
      LAMBDA m0 :
        With(AddEdges(m0, edgeTuples), LAMBDA m1 :
          IF m1.edgeCount = 0 THEN m1
          ELSE With(sortEdgesDirectly(m1), LAMBDA m2 :
                 With(initContours(m2).m, LAMBDA m3 :
                   embedFacesLabelImage(m3).m))))

\* ------------------------------------------------------------------------
\* the maps the model starts from
\* ------------------------------------------------------------------------

\* a ring of two edges between nodes 1 and 2, and an isolated node 3
MapA ==
    GeoMapInit(<< <<0, 0>>, <<4, 0>>, <<9, 9>> >>,
               << <<1, 2, << <<0, 0>>, <<4, 0>> >> >>,
                  <<2, 1, << <<4, 0>>, <<2, 3>>, <<0, 0>> >> >> >>)

\* a triangle 1-2-3, a pendant edge at node 2 and an isolated node 5
MapB ==
    GeoMapInit(<< <<0, 0>>, <<10, 0>>, <<5, 8>>, <<7, 2>>, <<20, 20>> >>,
               << <<1, 2, << <<0, 0>>, <<10, 0>> >> >>,
                  <<2, 3, << <<10, 0>>, <<5, 8>> >> >>,
                  <<3, 1, << <<5, 8>>, <<0, 0>> >> >>,
                  <<2, 4, << <<10, 0>>, <<7, 2>> >> >> >>)

\* an open path 1-2-3 whose two edges both start at the middle node 2
MapC ==
    GeoMapInit(<< <<0, 0>>, <<5, 0>>, <<10, 0>> >>,
               << <<2, 1, << <<5, 0>>, <<0, 0>> >> >>,
                  <<2, 3, << <<5, 0>>, <<10, 0>> >> >> >>)

\* three self-loops: a square of side 30 at node 1 and inside it a square
\* of side 20 at node 2 and a 4 x 25 rectangle at node 3, so that the face
\* between them has the area of the square at node 2
MapD ==
    GeoMapInit(<< <<0, 0>>, <<1, 1>>, <<24, 2>> >>,
               << <<1, 1, << <<0, 0>>, <<30, 0>>, <<30, 30>>, <<0, 30>>,
                             <<0, 0>> >> >>,
                  <<2, 2, << <<1, 1>>, <<21, 1>>, <<21, 21>>, <<1, 21>>,
                             <<1, 1>> >> >>,
                  <<3, 3, << <<24, 2>>, <<24, 27>>, <<28, 27>>, <<28, 2>>,
                             <<24, 2>> >> >> >>)

\* an open path 1-2-3-4: the middle edge is a bridge between two nodes of
\* degree 2
MapE ==
    GeoMapInit(<< <<0, 0>>, <<4, 1>>, <<8, 0>>, <<12, 1>> >>,
               << <<1, 2, << <<0, 0>>, <<4, 1>> >> >>,
                  <<2, 3, << <<4, 1>>, <<8, 0>> >> >>,
                  <<3, 4, << <<8, 0>>, <<12, 1>> >> >> >>)

\* MapD and MapB built with the label image
MapDLabelImage ==
    GeoMapInitLabelImage(
        << <<0, 0>>, <<1, 1>>, <<24, 2>> >>,
        << <<1, 1, << <<0, 0>>, <<30, 0>>, <<30, 30>>, <<0, 30>>,
                      <<0, 0>> >> >>,
           <<2, 2, << <<1, 1>>, <<21, 1>>, <<21, 21>>, <<1, 21>>,
                      <<1, 1>> >> >>,
           <<3, 3, << <<24, 2>>, <<24, 27>>, <<28, 27>>, <<28, 2>>,
                      <<24, 2>> >> >> >>)

MapBLabelImage ==
    GeoMapInitLabelImage(
        << <<0, 0>>, <<10, 0>>, <<5, 8>>, <<7, 2>>, <<20, 20>> >>,
        << <<1, 2, << <<0, 0>>, <<10, 0>> >> >>,
           <<2, 3, << <<10, 0>>, <<5, 8>> >> >>,
           <<3, 1, << <<5, 8>>, <<0, 0>> >> >>,
           <<2, 4, << <<10, 0>>, <<7, 2>> >> >> >>)

\* a ring of four edges 1-2-3-4 along the border of a 4 x 3 label image
MapP ==
    GeoMapInitImage(
        << <<0, 0>>, <<3, 0>>, <<3, 2>>, <<0, 2>> >>,
        << <<1, 2, << <<0, 0>>, <<3, 0>> >> >>,
           <<2, 3, << <<3, 0>>, <<3, 2>> >> >>,
           <<3, 4, << <<3, 2>>, <<0, 2>> >> >>,
           <<4, 1, << <<0, 2>>, <<0, 0>> >> >> >>,
        <<4, 3>>)

\* a map with its area caches dropped: what two segmentations are compared by
SegView(m) ==
    [m EXCEPT !.faces = [i \in 1..Len(m.faces) |->
                            [m.faces[i] EXCEPT !.area = 0,
                                               !.areaValid = FALSE]]]

\* ------------------------------------------------------------------------
\* CellPyramid::Operation and CellPyramid::Level
\* ------------------------------------------------------------------------
OperationTypes ==
    {"RemoveIsolatedNode", "MergeFaces", "RemoveBridge", "MergeEdges",
     "RemoveEdge", "RemoveEdgeWithEnds"}

\* Operation(opType, paramDart): a primitive with its serialized dart
Operation(t, p) == [type |-> t, param |-> p, opList |-> <<>>]

\* Operation(): a Composite owning a sub-history
CompositeOperation(ops) == [type |-> "Composite", param |-> 0, opList |-> ops]

\* Level(s, c, p)
Level(s) == [index |-> 0, subIndex |-> 0, seg |-> s]

\* the ...Internal members: the segmentation call, then ++subIndex_ when it
\* returned; an exception leaves the level with the map the call left behind
Internal(lv, r) ==
    IF r.st = "ok"
    THEN [st |-> "ok", lv |-> [lv EXCEPT !.seg = r.m, !.subIndex = @ + 1]]
    ELSE [st |-> r.st, lv |-> [lv EXCEPT !.seg = r.m]]

removeIsolatedNodeInternal(lv, n) ==
    With(removeIsolatedNode(lv.seg, n, NoVeto), LAMBDA r : Internal(lv, r))

mergeFacesInternal(lv, d) ==
    With(mergeFaces(lv.seg, d, NoVeto), LAMBDA r : Internal(lv, r))

removeBridgeInternal(lv, d) ==
    With(removeBridge(lv.seg, d, NoVeto), LAMBDA r : Internal(lv, r))

mergeEdgesInternal(lv, d) ==
    With(mergeEdges(lv.seg, d, NoVeto), LAMBDA r : Internal(lv, r))

\* case RemoveEdge of performOperation
removeEdgeInternal(lv, d) ==
    IF ~DartOk(lv.seg, d) THEN [st |-> "throw", lv |-> lv]
    ELSE IF leftFaceLabel(lv.seg, d) = rightFaceLabel(lv.seg, d)
    THEN removeBridgeInternal(lv, d)
    ELSE mergeFacesInternal(lv, d)

\* node.degree == 0 of a remembered end node that is still in the map
IsolatedNode(m, n) == NodeLive(m, n) /\ m.nodes[n].darts = <<>>

\* case RemoveEdgeWithEnds of performOperation
removeEdgeWithEndsInternal(lv, d) ==
    IF ~DartOk(lv.seg, d) THEN [st |-> "throw", lv |-> lv]
    ELSE LET node1 == lv.seg.edges[edgeLabel(d)].start
             node2 == lv.seg.edges[edgeLabel(d)].end
         IN With(removeEdgeInternal(lv, d), LAMBDA r :
              With(IF r.st = "ok" /\ IsolatedNode(r.lv.seg, node1)
                   THEN removeIsolatedNodeInternal(r.lv, node1)
                   ELSE r,
                LAMBDA r1 :
                  IF r1.st = "ok" /\ node1 # node2
                     /\ IsolatedNode(r1.lv.seg, node2)
                  THEN removeIsolatedNodeInternal(r1.lv, node2)
                  ELSE r1))

\* Level::performOperation(op): [st, lv]
RECURSIVE performOperation(_, _)
RECURSIVE PerformList(_, _, _)
PerformList(lv, ops, i) ==
    IF i > Len(ops) THEN [st |-> "ok", lv |-> lv]
    ELSE With(performOperation(lv, ops[i]), LAMBDA r :
           IF r.st # "ok" THEN r ELSE PerformList(r.lv, ops, i + 1))

performOperation(lv, op) ==
    IF op.type = "Composite" THEN PerformList(lv, op.opList, 1)
    ELSE IF op.type = "RemoveIsolatedNode"
    THEN removeIsolatedNodeInternal(lv, op.param)
    ELSE IF op.type = "MergeFaces" THEN mergeFacesInternal(lv, op.param)
    ELSE IF op.type = "RemoveBridge" THEN removeBridgeInternal(lv, op.param)
    ELSE IF op.type = "MergeEdges" THEN mergeEdgesInternal(lv, op.param)
    ELSE IF op.type = "RemoveEdge" THEN removeEdgeInternal(lv, op.param)
    ELSE IF op.type = "RemoveEdgeWithEnds"
    THEN removeEdgeWithEndsInternal(lv, op.param)
    ELSE [st |-> "throw", lv |-> lv]

\* checkpoints_.upper_bound(levelIndex), one step back: the largest key that
\* is <= levelIndex
LastCheckpointKey(cps, levelIndex) ==
    CHOOSE k \in DOMAIN cps :
        /\ k <= levelIndex
        /\ \A j \in DOMAIN cps : j <= levelIndex => j <= k

\* Level::gotoLastCheckpointBefore(levelIndex): [restored, lv]
gotoLastCheckpointBefore(lv, cps, levelIndex) ==
    LET key == LastCheckpointKey(cps, levelIndex)
    IN IF lv.index <= levelIndex /\ key <= lv.index
       THEN [restored |-> FALSE, lv |-> lv]
       ELSE [restored |-> TRUE, lv |-> cps[key]]

\* the replay loop of gotoLevel / approachLevel: [st, lv, steps]
RECURSIVE Replay(_, _, _, _)
Replay(lv, hist, gotoLevelIndex, steps) ==
    IF lv.index >= gotoLevelIndex \/ steps = 0
    THEN [st |-> "ok", lv |-> lv]
    ELSE IF lv.index >= Len(hist) THEN [st |-> "ub", lv |-> lv]
    ELSE With(performOperation(lv, hist[lv.index + 1]), LAMBDA r :
           IF r.st # "ok" THEN r
           ELSE With([r.lv EXCEPT !.index = @ + 1], LAMBDA lv1 :
                  Replay(lv1, hist, gotoLevelIndex, steps - 1)))

\* approachLevel that does not count the restore as a step
approachLevelFreeRestore(lv, hist, cps, gotoLevelIndex, maxSteps) ==
    With(gotoLastCheckpointBefore(lv, cps, gotoLevelIndex), LAMBDA g :
      With(Replay(g.lv, hist, gotoLevelIndex, maxSteps),
        LAMBDA r :
          [st |-> r.st, lv |-> r.lv, ret |-> r.lv.index = gotoLevelIndex]))

\* Level::approachLevel(gotoLevelIndex, maxSteps): [st, lv, ret]; step
\* starts at 1 after a restore, so the loop replays at most maxSteps - step
\* entries
approachLevel(lv, hist, cps, gotoLevelIndex, maxSteps) ==
    With(gotoLastCheckpointBefore(lv, cps, gotoLevelIndex), LAMBDA g :
      With(Replay(g.lv, hist, gotoLevelIndex,
                  Max(0, maxSteps - (IF g.restored THEN 1 ELSE 0))),
        LAMBDA r :
          [st |-> r.st, lv |-> r.lv, ret |-> r.lv.index = gotoLevelIndex]))

\* Level::gotoLevel(gotoLevelIndex) of a level of the pyramid (hist, cps)
gotoLevel(lv, hist, cps, gotoLevelIndex) ==
    With(gotoLastCheckpointBefore(lv, cps, gotoLevelIndex).lv, LAMBDA lv1 :
      Replay(lv1, hist, gotoLevelIndex, Len(hist) + 1))

\* ------------------------------------------------------------------------
\* CellPyramid: the members as functions of the pyramid record
\*   p = [history, checkpoints, topLevel, nextCheckpointLevelIndex, composing]
\* composing_ is an unsigned int; the model keeps its residue as a signed
\* number, so 0 - 1 stands for UINT_MAX.  Results are [st, p, err].
\* ------------------------------------------------------------------------
NoCheckpoints == [k \in {} |-> Level(EmptyMap)]

levelCount(p) == Len(p.history) + 1

\* CellPyramid::storeCheckpoint(level)
storeCheckpoint(p, level) ==
    LET totalCellCount == level.seg.nodeCount + level.seg.edgeCount
                          + level.seg.faceCount
        p1 == [p EXCEPT !.nextCheckpointLevelIndex =
                   level.subIndex + Max(totalCellCount \div 4,
                                        MinCheckpointDist)]
    IN IF level.index \in DOMAIN p.checkpoints THEN p1
       ELSE [p1 EXCEPT !.checkpoints = (level.index :> level) @@ @]

\* CellPyramid(level0)
CellPyramid(level0) ==
    storeCheckpoint([history |-> <<>>, checkpoints |-> NoCheckpoints,
                     topLevel |-> Level(level0),
                     nextCheckpointLevelIndex |-> 0, composing |-> 0],
                    Level(level0))

\* the checkpoint test after ++topLevel_.index_
CheckpointIfDue(p) ==
    IF p.topLevel.subIndex >= p.nextCheckpointLevelIndex
    THEN storeCheckpoint(p, p.topLevel)
    ELSE p

\* cutApex that stores the new top level: storeCheckpoint(topLevel_)
cutApexStoresTopLevel(p) ==
    IF p.topLevel.index > Len(p.history) THEN [st |-> "ub", p |-> p]
    ELSE LET keys == {k \in DOMAIN p.checkpoints : k <= p.topLevel.index}
         IN With([p EXCEPT !.history = SubSeq(@, 1, p.topLevel.index),
                           !.checkpoints = [k \in keys |-> @[k]]],
              LAMBDA p1 :
                IF keys = {} THEN [st |-> "ub", p |-> p1]
                ELSE [st |-> "ok", p |-> storeCheckpoint(p1, p1.topLevel)])

\* CellPyramid::cutApex(): [st, p]; erasing from begin() + index past end()
\* is undefined
cutApex(p) ==
    IF p.topLevel.index > Len(p.history) THEN [st |-> "ub", p |-> p]
    ELSE LET keys == {k \in DOMAIN p.checkpoints : k <= p.topLevel.index}
         IN With([p EXCEPT !.history = SubSeq(@, 1, p.topLevel.index),
                           !.checkpoints = [k \in keys |-> @[k]]],
              LAMBDA p1 :
                IF keys = {} THEN [st |-> "ub", p |-> p1]
                ELSE LET last == CHOOSE k \in keys : \A j \in keys : j <= k
                     IN [st |-> "ok",
                         p |-> storeCheckpoint(p1, p1.checkpoints[last])])

\* CellPyramid::cutAbove(unsigned int levelIndex)
cutAbove(p, levelIndex) ==
    IF p.topLevel.index # levelCount(p) - 1
    THEN [st |-> "throw", p |-> p, err |-> "cutAbove"]
    ELSE IF p.topLevel.index > levelIndex
    THEN With(gotoLevel(p.topLevel, p.history, p.checkpoints, levelIndex),
           LAMBDA g :
             IF g.st # "ok"
             THEN [st |-> g.st, p |-> [p EXCEPT !.topLevel = g.lv],
                   err |-> "replay"]
             ELSE With(cutApex([p EXCEPT !.topLevel = g.lv]), LAMBDA c :
                    [st |-> c.st, p |-> c.p, err |-> ""]))
    ELSE [st |-> "ok", p |-> p, err |-> ""]

\* CellPyramid::addAndPerformOperation(t, p), the branch taken outside
\* composites; the handler calls cutAbove before it rethrows, and an
\* exception leaving cutAbove replaces the one being handled
AddTopLevel(p, op) ==
    With(performOperation(p.topLevel, op), LAMBDA r :
      With([p EXCEPT !.history = Append(@, op), !.topLevel = r.lv],
        LAMBDA p2 :
          IF r.st = "ok"
          THEN With([p2 EXCEPT !.topLevel.index = @ + 1], LAMBDA p3 :
                 [st |-> "ok", p |-> CheckpointIfDue(p3), err |-> ""])
          ELSE IF r.st = "ub" THEN [st |-> "ub", p |-> p2, err |-> ""]
          ELSE With(cutAbove(p2, p2.topLevel.index), LAMBDA c :
                 IF c.st = "ok"
                 THEN [st |-> "throw", p |-> c.p, err |-> "primitive"]
                 ELSE c)))

\* the branch taken while composing_ is not 0: history_.back().opList is
\* read whatever history_.back() is
AddComposing(p, op) ==
    IF p.history = <<>> \/ p.history[Len(p.history)].type # "Composite"
    THEN [st |-> "ub", p |-> p, err |-> ""]
    ELSE LET n == Len(p.history)
         IN With(performOperation(p.topLevel, op), LAMBDA r :
              IF r.st = "throw"
              THEN [st |-> "throw", p |-> [p EXCEPT !.topLevel = r.lv],
                    err |-> "primitive"]
              ELSE [st |-> r.st,
                    p |-> [p EXCEPT !.topLevel = r.lv,
                                    !.history[n].opList = Append(@, op)],
                    err |-> ""])

addAndPerformOperation(p, t, param) ==
    IF p.composing = 0 THEN AddTopLevel(p, Operation(t, param))
    ELSE AddComposing(p, Operation(t, param))

\* CellPyramid::beginComposite()
beginComposite(p) ==
    LET p1 == IF p.composing = 0
              THEN [p EXCEPT !.history = Append(@, CompositeOperation(<<>>))]
              ELSE p
    IN [st |-> "ok", p |-> [p1 EXCEPT !.composing = @ + 1], err |-> ""]

\* CellPyramid::changeIntoComposite(): history_.back() of an empty history
\* is undefined
changeIntoComposite(p) ==
    IF p.composing # 0
    THEN [st |-> "ok", p |-> [p EXCEPT !.composing = @ + 1], err |-> ""]
    ELSE IF p.history = <<>>
    THEN [st |-> "ub", p |-> [p EXCEPT !.composing = @ + 1], err |-> ""]
    ELSE [st |-> "ok",
          p |-> [p EXCEPT !.history[Len(p.history)] =
                              CompositeOperation(<<@>>),
                          !.composing = @ + 1],
          err |-> ""]

\* endComposite() without "if(history_.back().opList.size() == 1)": the
\* composite is kept whatever its length
endCompositeKeepsComposite(p) ==
    LET p1 == [p EXCEPT !.composing = @ - 1]
        n == Len(p.history)
    IN IF p1.composing # 0 THEN [st |-> "ok", p |-> p1, err |-> ""]
       ELSE IF n = 0 \/ p.history[n].type # "Composite"
       THEN [st |-> "ub", p |-> p1, err |-> ""]
       ELSE [st |-> "ok",
             p |-> CheckpointIfDue([p1 EXCEPT !.topLevel.index = @ + 1]),
             err |-> ""]

\* endComposite() that drops a composite in which nothing was recorded and
\* does not advance the top level then
endCompositeDropsEmpty(p) ==
    LET p1 == [p EXCEPT !.composing = @ - 1]
        n == Len(p.history)
    IN IF p1.composing # 0 THEN [st |-> "ok", p |-> p1, err |-> ""]
       ELSE IF n = 0 \/ p.history[n].type # "Composite"
       THEN [st |-> "ub", p |-> p1, err |-> ""]
       ELSE IF p.history[n].opList = <<>>
       THEN [st |-> "ok",
             p |-> [p1 EXCEPT !.history = SubSeq(@, 1, n - 1)],
             err |-> ""]
       ELSE LET p2 == IF Len(p.history[n].opList) = 1
                      THEN [p1 EXCEPT !.history[n] = @.opList[1]]
                      ELSE p1
            IN [st |-> "ok",
                p |-> CheckpointIfDue([p2 EXCEPT !.topLevel.index = @ + 1]),
                err |-> ""]

\* CellPyramid::endComposite(): --composing_ first, then, when it reached 0,
\* history_.back().opList is read whatever history_.back() is
endComposite(p) ==
    LET p1 == [p EXCEPT !.composing = @ - 1]
        n == Len(p.history)
    IN IF p1.composing # 0 THEN [st |-> "ok", p |-> p1, err |-> ""]
       ELSE IF n = 0 \/ p.history[n].type # "Composite"
       THEN [st |-> "ub", p |-> p1, err |-> ""]
       ELSE LET p2 == IF Len(p.history[n].opList) = 1
                      THEN [p1 EXCEPT !.history[n] = @.opList[1]]
                      ELSE p1
            IN [st |-> "ok",
                p |-> CheckpointIfDue([p2 EXCEPT !.topLevel.index = @ + 1]),
                err |-> ""]

\* CellPyramid::getLastCheckpointBefore / getLevel: [st, lv]
getLevel(p, levelIndex) ==
    IF ~(levelIndex < levelCount(p))
    THEN [st |-> "throw", lv |-> Level(EmptyMap)]
    ELSE LET cp == p.checkpoints[LastCheckpointKey(p.checkpoints, levelIndex)]
         IN gotoLevel(cp, p.history, p.checkpoints, levelIndex)

\* ------------------------------------------------------------------------
\* LabelLUT (labellut.hxx); labels are 0 .. size - 1
\* ------------------------------------------------------------------------
LutSize == 4

\* initIdentity(size)
initIdentity(size) ==
    [labelLUT |-> [i \in 0..(size - 1) |-> i],
     prevMerged |-> [i \in 0..(size - 1) |-> i]]

LabelLUT(size) == initIdentity(size)

\* the loop of relabel(from, to): [labelLUT, prev, done]; done is FALSE when
\* the loop does not come to a label that is its own predecessor
RECURSIVE RelabelLoop(_, _, _, _, _)
RelabelLoop(labelLUT, prevMerged, fromIt, to, fuel) ==
    With([labelLUT EXCEPT ![fromIt] = to], LAMBDA l1 :
      With(prevMerged[fromIt], LAMBDA prev :
        IF prev = fromIt THEN [labelLUT |-> l1, prev |-> prev, done |-> TRUE]
        ELSE IF fuel = 0
        THEN [labelLUT |-> l1, prev |-> prev, done |-> FALSE]
        ELSE RelabelLoop(l1, prevMerged, prev, to, fuel - 1)))

\* relabel without the splice 'prevMerged_[prev] = prevMerged_[to]'
relabelDropsToList(l, from, to) ==
    With(RelabelLoop(l.labelLUT, l.prevMerged, from, to,
                     Cardinality(DOMAIN l.labelLUT)),
      LAMBDA w :
        IF ~w.done THEN [st |-> "hang", l |-> l]
        ELSE [st |-> "ok",
              l |-> [labelLUT |-> w.labelLUT,
                     prevMerged |-> [l.prevMerged EXCEPT ![to] = from]]])

\* LabelLUT::relabel(from, to): [st, l]
relabel(l, from, to) ==
    With(RelabelLoop(l.labelLUT, l.prevMerged, from, to,
                     Cardinality(DOMAIN l.labelLUT)),
      LAMBDA w :
        IF ~w.done THEN [st |-> "hang", l |-> l]
        ELSE With(IF l.prevMerged[to] # to
                  THEN [l.prevMerged EXCEPT ![w.prev] = l.prevMerged[to]]
                  ELSE l.prevMerged,
               LAMBDA pm :
                 [st |-> "ok",
                  l |-> [labelLUT |-> w.labelLUT,
                         prevMerged |-> [pm EXCEPT ![to] = from]]]))

\* the labels that *it yields for it = mergedBegin(start) until it.atEnd(),
\* as [seq, atEnd]; atEnd is FALSE when the iteration goes on for more than
\* fuel increments
RECURSIVE MergedFrom(_, _, _, _)
MergedFrom(l, currentLabel, acc, fuel) ==
    With(l.prevMerged[currentLabel], LAMBDA next :
      IF next = currentLabel
      THEN [seq |-> Append(acc, currentLabel), atEnd |-> TRUE]
      ELSE IF fuel = 0
      THEN [seq |-> Append(acc, currentLabel), atEnd |-> FALSE]
      ELSE MergedFrom(l, next, Append(acc, currentLabel), fuel - 1))

mergedBegin(l, start) ==
    MergedFrom(l, start, <<>>, Cardinality(DOMAIN l.labelLUT))

\* ------------------------------------------------------------------------
\* state
\* ------------------------------------------------------------------------
VARIABLES
    history,                   \* CellPyramid::history_
    checkpoints,               \* CellPyramid::checkpoints_
    topLevel,                  \* CellPyramid::topLevel_
    nextCheckpointLevelIndex,  \* CellPyramid::nextCheckpointLevelIndex_
    composing,                 \* CellPyramid::composing_
    aborted,                   \* the process ended in undefined behaviour
    lastCall,                  \* the last pyramid call and its outcome
    block,                     \* the composite block the user has open
    segAt,                     \* index -> segmentation of the top level when
                               \* its index first took that value
    map,                       \* a GeoMap operated on directly
    mapCall,                   \* the last call on map, its outcome, and
                               \* whether every call so far returned normally
    lut,                       \* a LabelLUT, and whether every relabel so
                               \* far named two distinct representatives
    map2d,                     \* a Map2D and the last nearest() query on it
    handle                     \* a Level the user holds (from getLevel) and
                               \* the last navigation call made on it

pyramidVars == <<history, checkpoints, topLevel, nextCheckpointLevelIndex,
                 composing, aborted, lastCall, block, segAt>>

mapVars == <<map, mapCall>>

partVars == <<lut, map2d, handle>>

vars == <<history, checkpoints, topLevel, nextCheckpointLevelIndex,
          composing, aborted, lastCall, block, segAt, map, mapCall, lut,
          map2d, handle>>

\* the pyramid object of the current state
Pyramid ==
    [history |-> history, checkpoints |-> checkpoints, topLevel |-> topLevel,
     nextCheckpointLevelIndex |-> nextCheckpointLevelIndex,
     composing |-> composing]

\* the calls a user makes on the pyramid over MapA: operation type and the
\* dart (for RemoveIsolatedNode: the node) handed in
UserOps ==
    {<<"MergeEdges", 0 - 1>>, <<"RemoveEdge", 2>>,
     <<"RemoveEdgeWithEnds", 1>>, <<"RemoveIsolatedNode", 3>>}

NoBlock == [depth |-> 0, via |-> "none", startSize |-> 0, startIndex |-> 0,
            ok |-> <<>>, cut |-> FALSE]

NoHandleCall == [name |-> "none", target |-> 0, maxSteps |-> 0,
                 st |-> "ok", ret |-> FALSE]

\* the state after construction of the pyramid over MapA and of the map m
\* operated on directly
Constructed(m) ==
    /\ \E p \in {CellPyramid(MapA)} :
           /\ history = p.history
           /\ checkpoints = p.checkpoints
           /\ topLevel = p.topLevel
           /\ nextCheckpointLevelIndex = p.nextCheckpointLevelIndex
           /\ composing = p.composing
    /\ aborted = FALSE
    /\ lastCall = [name |-> "CellPyramid", arg |-> 0, st |-> "ok",
                   err |-> ""]
    /\ block = NoBlock
    /\ segAt = (0 :> SegView(MapA))
    /\ map = m
    /\ mapCall = [name |-> "GeoMap", arg |-> 0, h |-> NoVeto, st |-> "ok",
                  clean |-> TRUE, post |-> m]
    /\ lut = [l |-> LabelLUT(LutSize), clean |-> TRUE, st |-> "ok"]
    /\ map2d = [vectors |-> <<>>, v |-> <<0, 0>>, maxSquaredDist |-> 0,
                found |-> 1]
    /\ handle = [lv |-> Level(MapA), call |-> NoHandleCall]

Init == Constructed(MapB)

\* the state a call returning r = [st, p, err] leaves: undefined behaviour
\* either ends the process or lets the call return
Returns(name, arg, r, newBlock, keep) ==
    /\ history' = r.p.history
    /\ checkpoints' = r.p.checkpoints
    /\ topLevel' = r.p.topLevel
    /\ nextCheckpointLevelIndex' = r.p.nextCheckpointLevelIndex
    /\ composing' = r.p.composing
    /\ aborted' \in (IF r.st = "ub" THEN BOOLEAN ELSE {FALSE})
    /\ lastCall' = [name |-> name, arg |-> arg, st |-> r.st, err |-> r.err]
    /\ block' = IF newBlock.depth = 0 /\ name # "endComposite" THEN NoBlock
                ELSE newBlock
    /\ segAt' = LET base == [i \in {j \in DOMAIN segAt : j <= keep} |->
                                segAt[i]]
                IN IF r.p.topLevel.index \in DOMAIN base THEN base
                   ELSE (r.p.topLevel.index :> SegView(r.p.topLevel.seg))
                        @@ base
    /\ UNCHANGED <<mapVars, partVars>>

KeepAll == MaxHist + MaxNest + 2

\* removeIsolatedNode / mergeFaces / removeBridge / mergeEdges / removeEdge /
\* removeEdgeWithEnds of the pyramid; the dart handed in is one of the
\* current top level (an isolated node is named only while it is live)
EulerCall(t, param) ==
    /\ ~aborted
    /\ composing = 0 => Len(history) < MaxHist
    /\ composing # 0 /\ history # <<>>
           => Len(history[Len(history)].opList) < MaxOps
    /\ t = "RemoveIsolatedNode" => NodeLive(topLevel.seg, param)
    /\ \E r \in {addAndPerformOperation(Pyramid, t, param)} :
           Returns(t, param, r,
                   IF r.st = "ok" /\ block.depth > 0
                   THEN [block EXCEPT !.ok = Append(@, Operation(t, param))]
                   ELSE block,
                   KeepAll)

BeginComposite ==
    /\ ~aborted
    /\ composing < MaxNest
    /\ composing = 0 => Len(history) < MaxHist
    /\ \E r \in {beginComposite(Pyramid)} :
           Returns("beginComposite", 0, r,
                   IF block.depth = 0
                   THEN [depth |-> 1, via |-> "begin",
                         startSize |-> Len(history),
                         startIndex |-> topLevel.index, ok |-> <<>>,
                         cut |-> FALSE]
                   ELSE [block EXCEPT !.depth = @ + 1],
                   KeepAll)

\* the user wraps a primitive, not an entry that is a composite already
ChangeIntoComposite ==
    /\ ~aborted
    /\ composing < MaxNest
    /\ composing = 0 /\ history # <<>>
           => history[Len(history)].type # "Composite"
    /\ \E r \in {changeIntoComposite(Pyramid)} :
           Returns("changeIntoComposite", 0, r,
                   IF block.depth = 0
                   THEN [depth |-> 1, via |-> "change",
                         startSize |-> Len(history),
                         startIndex |-> topLevel.index, ok |-> <<>>,
                         cut |-> FALSE]
                   ELSE [block EXCEPT !.depth = @ + 1],
                   KeepAll)

\* endComposite() closing a block; the index of the top level is let run one
\* past the longest history
EndComposite ==
    /\ ~aborted
    /\ composing > 0
    /\ topLevel.index <= MaxHist
    /\ \E r \in {endComposite(Pyramid)} :
           Returns("endComposite", 0, r,
                   IF block.depth = 0 THEN [NoBlock EXCEPT !.via = "stray"]
                   ELSE [block EXCEPT !.depth = @ - 1],
                   KeepAll)

\* endComposite() while composing_ is 0
StrayEndComposite ==
    /\ ~aborted
    /\ composing = 0
    /\ \E r \in {endComposite(Pyramid)} :
           Returns("endComposite", 0, r, [NoBlock EXCEPT !.via = "stray"],
                   KeepAll)

CutAbove(levelIndex) ==
    /\ ~aborted
    /\ \E r \in {cutAbove(Pyramid, levelIndex)} :
           Returns("cutAbove", levelIndex, r,
                   IF block.depth > 0 /\ r.p # Pyramid
                   THEN [block EXCEPT !.cut = TRUE]
                   ELSE block,
                   IF r.p.topLevel.index < topLevel.index THEN levelIndex
                   ELSE KeepAll)

\* storeCheckpoint(topLevel()) for a level that has no checkpoint yet
StoreCheckpoint ==
    /\ ~aborted
    /\ topLevel.index \notin DOMAIN checkpoints
    /\ \E p \in {storeCheckpoint(Pyramid, topLevel)} :
           Returns("storeCheckpoint", 0, [st |-> "ok", p |-> p, err |-> ""],
                   block, KeepAll)

Next ==
    \/ \E op \in UserOps : EulerCall(op[1], op[2])
    \/ BeginComposite
    \/ ChangeIntoComposite
    \/ EndComposite
    \/ \E i \in 0..MaxHist : CutAbove(i)
    \/ StoreCheckpoint

Spec == Init /\ [][Next]_vars

\* the composite calls alone, endComposite() without a block included
NextComposite ==
    \/ \E op \in UserOps : EulerCall(op[1], op[2])
    \/ BeginComposite
    \/ EndComposite
    \/ StrayEndComposite

SpecComposite == Init /\ [][NextComposite]_vars

\* ------------------------------------------------------------------------
\* Euler operations called on a GeoMap directly
\* ------------------------------------------------------------------------
MapDarts == {d \in (0 - Len(MapB.edges))..Len(MapB.edges) : d # 0}

MapNodes == 1..Len(MapB.nodes)

\* the answers the registered hooks may give to one call
Hooks == [pre : BOOLEAN, removeNode : BOOLEAN]

\* the state a map call returning r = [st, m] leaves; h are the answers the
\* hooks were set to give
MapReturns(name, arg, h, r) ==
    /\ map' = r.m
    /\ mapCall' = [name |-> name, arg |-> arg, h |-> h, st |-> r.st,
                   clean |-> mapCall.clean /\ r.st = "ok",
                   post |-> IF "post" \in DOMAIN r THEN r.post ELSE r.m]
    /\ aborted' \in (IF r.st = "ub" THEN BOOLEAN ELSE {FALSE})
    /\ UNCHANGED <<history, checkpoints, topLevel, nextCheckpointLevelIndex,
                   composing, lastCall, block, segAt>>
    /\ UNCHANGED partVars

\* map.removeIsolatedNode(node) on a node of the map, whatever its degree
MapRemoveIsolatedNode(n, h) ==
    /\ ~aborted
    /\ NodeLive(map, n)
    /\ h.pre
    /\ \E r \in {removeIsolatedNode(map, n, h)} :
           MapReturns("removeIsolatedNode", n, h, r)

MapMergeEdges(d, h) ==
    /\ ~aborted
    /\ \E r \in {mergeEdges(map, d, h)} : MapReturns("mergeEdges", d, h, r)

MapRemoveBridge(d, h) ==
    /\ ~aborted
    /\ \E r \in {removeBridge(map, d, h)} :
           MapReturns("removeBridge", d, h, r)

MapMergeFaces(d, h) ==
    /\ ~aborted
    /\ \E r \in {mergeFaces(map, d, h)} : MapReturns("mergeFaces", d, h, r)

\* the Euler operations with every hook agreeing
NextMap ==
    \/ \E n \in MapNodes : MapRemoveIsolatedNode(n, NoVeto)
    \/ \E d \in MapDarts : MapMergeEdges(d, NoVeto)
    \/ \E d \in MapDarts : MapRemoveBridge(d, NoVeto)
    \/ \E d \in MapDarts : MapMergeFaces(d, NoVeto)

\* the maps the Euler operations are called on directly
InitMap == \E m \in {MapB, MapC, MapD} : Constructed(m)

SpecMap == InitMap /\ [][NextMap]_vars

\* the Euler operations on MapA with hooks registered that may veto
InitHooks == Constructed(MapA)

HookDarts == {d \in (0 - Len(MapA.edges))..Len(MapA.edges) : d # 0}

NextHooks ==
    \/ \E n \in MapNodes, h \in Hooks : MapRemoveIsolatedNode(n, h)
    \/ \E d \in HookDarts, h \in Hooks : MapMergeEdges(d, h)
    \/ \E d \in HookDarts, h \in Hooks : MapRemoveBridge(d, h)
    \/ \E d \in HookDarts, h \in Hooks : MapMergeFaces(d, h)

SpecHooks == InitHooks /\ [][NextHooks]_vars

\* a Level over the map performs RemoveEdgeWithEnds on dart d
MapRemoveEdgeWithEnds(d) ==
    /\ ~aborted
    /\ \E r \in {removeEdgeWithEndsInternal(Level(map), d)} :
           MapReturns("removeEdgeWithEnds", d, NoVeto,
                      [st |-> r.st, m |-> r.lv.seg])

\* the Euler operations and the composite RemoveEdgeWithEnds
NextEnds ==
    \/ NextMap
    \/ \E d \in MapDarts : MapRemoveEdgeWithEnds(d)

SpecEnds == InitMap /\ [][NextEnds]_vars

\* the positions nodes are moved to
Positions == {<<9, 9>>, <<6, 7>>}

MapSetPosition(n, p) ==
    /\ ~aborted
    /\ NodeLive(map, n)
    /\ \E r \in {setPosition(map, n, p)} :
           MapReturns("setPosition", n, NoVeto, r)

\* the Euler operations and Node.setPosition on MapA and MapC
InitPos == \E m \in {MapA, MapC} : Constructed(m)

NextPos ==
    \/ \E n \in 1..Len(MapA.nodes) : MapRemoveIsolatedNode(n, NoVeto)
    \/ \E d \in HookDarts : MapMergeEdges(d, NoVeto)
    \/ \E d \in HookDarts : MapRemoveBridge(d, NoVeto)
    \/ \E d \in HookDarts : MapMergeFaces(d, NoVeto)
    \/ \E n \in 1..Len(MapA.nodes), p \in Positions : MapSetPosition(n, p)

SpecPos == InitPos /\ [][NextPos]_vars

\* lut.relabel(from, to) with any two labels of the table; a call whose
\* loop does not end never returns
LutRelabel(from, to) ==
    /\ lut.st = "ok"
    /\ \E r \in {relabel(lut.l, from, to)} :
           lut' = [l |-> r.l, st |-> r.st,
                   clean |-> /\ lut.clean
                             /\ from # to
                             /\ lut.l.labelLUT[from] = from
                             /\ lut.l.labelLUT[to] = to]
    /\ UNCHANGED <<pyramidVars, mapVars, map2d, handle>>

\* lut.initIdentity(LutSize)
LutInitIdentity ==
    /\ lut.st = "ok"
    /\ lut' = [l |-> initIdentity(LutSize), clean |-> TRUE, st |-> "ok"]
    /\ UNCHANGED <<pyramidVars, mapVars, map2d, handle>>

NextLut ==
    \/ \E from, to \in 0..(LutSize - 1) : LutRelabel(from, to)
    \/ LutInitIdentity

SpecLut == Init /\ [][NextLut]_vars

\* the points stored and asked for, and the squared radii
Points2D == (0..3) \X (0..2)

Radii == {0, 1, 2, 4, 5, 100}

Map2DInsertCall(p) ==
    /\ Len(map2d.vectors) < MaxPoints
    /\ map2d' = [vectors |-> Map2DInsert(map2d.vectors, p), v |-> <<0, 0>>,
                 maxSquaredDist |-> 0,
                 found |-> Len(map2d.vectors) + 2]
    /\ UNCHANGED <<pyramidVars, mapVars, lut, handle>>

\* erase(it) of a valid iterator
Map2DEraseCall(it) ==
    /\ it \in 1..Len(map2d.vectors)
    /\ map2d' = [vectors |-> RemoveAt(map2d.vectors, it), v |-> <<0, 0>>,
                 maxSquaredDist |-> 0, found |-> Len(map2d.vectors)]
    /\ UNCHANGED <<pyramidVars, mapVars, lut, handle>>

Map2DNearestCall(v, maxSquaredDist) ==
    /\ map2d' = [map2d EXCEPT
                   !.v = v, !.maxSquaredDist = maxSquaredDist,
                   !.found = nearest(map2d.vectors, v, maxSquaredDist)]
    /\ UNCHANGED <<pyramidVars, mapVars, lut, handle>>

NextMap2D ==
    \/ \E p \in Points2D : Map2DInsertCall(p)
    \/ \E it \in 1..MaxPoints : Map2DEraseCall(it)
    \/ \E v \in Points2D, r \in Radii : Map2DNearestCall(v, r)

SpecMap2D == Init /\ [][NextMap2D]_vars

\* the Euler operations on maps that were built with the label image
InitLabelImage == \E m \in {MapBLabelImage, MapDLabelImage} : Constructed(m)

SpecLabelImage == InitLabelImage /\ [][NextMap]_vars

\* the state a call on the handle leaves; r = [st, lv, ret]
HandleReturns(name, target, maxSteps, r) ==
    /\ handle' = [lv |-> r.lv,
                  call |-> [name |-> name, target |-> target,
                            maxSteps |-> maxSteps, st |-> r.st,
                            ret |-> r.ret]]
    /\ aborted' \in (IF r.st = "ub" THEN BOOLEAN ELSE {FALSE})
    /\ UNCHANGED <<history, checkpoints, topLevel, nextCheckpointLevelIndex,
                   composing, lastCall, block, segAt>>
    /\ UNCHANGED <<mapVars, lut, map2d>>

\* handle = pyramid.getLevel(levelIndex), for a level that exists
GetLevel(levelIndex) ==
    /\ ~aborted
    /\ levelIndex < levelCount(Pyramid)
    /\ \E r \in {getLevel(Pyramid, levelIndex)} :
           /\ r.st = "ok"
           /\ HandleReturns("getLevel", levelIndex, 0,
                            [st |-> r.st, lv |-> r.lv, ret |-> FALSE])

\* handle.gotoLevel(target), target < levelCount()
HandleGotoLevel(target) ==
    /\ ~aborted
    /\ handle.call.name # "none"
    /\ target < levelCount(Pyramid)
    /\ \E r \in {gotoLevel(handle.lv, history, checkpoints, target)} :
           HandleReturns("gotoLevel", target, 0,
                         [st |-> r.st, lv |-> r.lv, ret |-> FALSE])

\* handle.approachLevel(target, maxSteps), target < levelCount()
HandleApproachLevel(target, maxSteps) ==
    /\ ~aborted
    /\ handle.call.name # "none"
    /\ target < levelCount(Pyramid)
    /\ \E r \in {approachLevel(handle.lv, history, checkpoints, target,
                               maxSteps)} :
           HandleReturns("approachLevel", target, maxSteps, r)

\* the numbers of steps approachLevel is called with
StepCounts == {0, 1, 2}

\* a pyramid without composites, and a handle navigated while the pyramid
\* grows and is cut
NextLevels ==
    \/ \E op \in UserOps : EulerCall(op[1], op[2])
    \/ \E i \in 0..MaxHist : CutAbove(i)
    \/ StoreCheckpoint
    \/ \E i \in 0..MaxHist : GetLevel(i)
    \/ \E i \in 0..MaxHist : HandleGotoLevel(i)
    \/ \E i \in 0..MaxHist, n \in StepCounts : HandleApproachLevel(i, n)

SpecLevels == Init /\ [][NextLevels]_vars

\* ------------------------------------------------------------------------
\* properties of the pyramid
\* ------------------------------------------------------------------------
\* no call is in progress and no composite is open
AtRest == ~aborted /\ composing = 0 /\ block.depth = 0

\* the step is a pyramid Euler call
EulerStep == lastCall'.name \in OperationTypes

\* the initial segmentation with history entries 0 .. idx-1 applied in order
FullReplay(idx) == Replay(Level(MapA), history, idx, idx + 1)

\* C1: at rest topLevel.index equals history.size() and no checkpoint key
\* is above topLevel.index
C1_PyramidInvariantAtRest ==
    AtRest => /\ topLevel.index = Len(history)
              /\ \A k \in DOMAIN checkpoints : k <= topLevel.index

\* C2: an Euler call outside a composite whose primitive throws re-raises
\* that error and leaves history, topLevel.index and the segmentation of
\* the top level as they were before the call
C2_FailedCallRestores ==
    [][(AtRest /\ EulerStep /\ lastCall'.st = "throw")
          => /\ lastCall'.err = "primitive"
             /\ history' = history
             /\ topLevel'.index = topLevel.index
             /\ SegView(topLevel'.seg) = SegView(topLevel.seg)]_vars

\* C3: for every idx < levelCount(), getLevel(idx) returns a level of index
\* idx whose segmentation is the initial one with entries 0 .. idx-1
\* applied (stated at rest, where history holds completed entries only)
C3_GetLevelIsFullReplay ==
    AtRest =>
        \A idx \in 0..(levelCount(Pyramid) - 1) :
            \E g \in {getLevel(Pyramid, idx)} :
                /\ g.st = "ok"
                /\ g.lv.index = idx
                /\ \E f \in {FullReplay(idx)} :
                       /\ f.st = "ok"
                       /\ SegView(g.lv.seg) = SegView(f.lv.seg)

\* C4: for every idx <= topLevel.index, after cutAbove(idx) has returned the
\* segmentation of the top level is the one the top level had when its
\* index first became idx
C4_CutAboveRestoresSegmentation ==
    [][(~aborted /\ lastCall'.name = "cutAbove" /\ lastCall'.st = "ok"
        /\ lastCall'.arg <= topLevel.index
        /\ lastCall'.arg \in DOMAIN segAt)
          => SegView(topLevel'.seg) = segAt[lastCall'.arg]]_vars

\* C5: at rest cutAbove(idx) with idx < topLevel.index leaves
\* topLevel.index = idx, history cut to its first idx entries and no
\* checkpoint key above idx; with idx >= topLevel.index it changes neither
\* history, checkpoints nor the top level
C5_CutAbovePostconditions ==
    [][(AtRest /\ lastCall'.name = "cutAbove")
          => IF lastCall'.arg < topLevel.index
             THEN /\ topLevel'.index = lastCall'.arg
                  /\ lastCall'.arg <= Len(history)
                  /\ history' = SubSeq(history, 1, lastCall'.arg)
                  /\ \A k \in DOMAIN checkpoints' : k <= lastCall'.arg
             ELSE /\ history' = history
                  /\ checkpoints' = checkpoints
                  /\ topLevel' = topLevel]_vars

\* the user's block was opened by beginComposite() on a pyramid at rest
\* with topLevel.index = history.size(), and nothing was cut inside it
CleanBlock ==
    /\ block.via = "begin"
    /\ ~block.cut
    /\ block.startIndex = block.startSize
    /\ composing = block.depth

\* C6: a primitive that throws while a composite is open rolls the whole
\* composite back: its entry leaves history, the segmentation of the top
\* level is the one from before the composite, topLevel.index is unchanged
C6_CompositeRolledBack ==
    [][(~aborted /\ block.depth > 0 /\ CleanBlock /\ EulerStep
        /\ lastCall'.st = "throw")
          => /\ Len(history') = block.startSize
             /\ SegView(topLevel'.seg) = segAt[block.startIndex]
             /\ topLevel'.index = block.startIndex]_vars

\* the last history entry a closed block of successful calls ops stands for
BlockEntry(ops) ==
    IF Len(ops) = 1 THEN ops[1] ELSE CompositeOperation(ops)

\* C7: a successful Euler call outside composites and an outermost
\* beginComposite ... endComposite block each add one history entry and
\* raise topLevel.index by 1; calls inside an open composite change neither
\* history.size() nor topLevel.index; the composite's sublist holds its
\* primitives in call order
C7_OneEntryPerAction ==
    [][/\ (~aborted /\ block.depth = 0 /\ EulerStep /\ lastCall'.st = "ok")
          => /\ Len(history') = Len(history) + 1
             /\ topLevel'.index = topLevel.index + 1
       /\ (~aborted /\ block.depth = 1 /\ block.via = "begin" /\ ~block.cut
           /\ lastCall'.name = "endComposite" /\ lastCall'.st = "ok")
          => /\ Len(history') = block.startSize + 1
             /\ topLevel'.index = block.startIndex + 1
             /\ history'[Len(history')] = BlockEntry(block.ok)
       /\ (~aborted /\ block.via = "begin" /\ ~block.cut
           /\ (block.depth > 1
               \/ (block.depth = 1 /\ lastCall'.name # "endComposite"))
           /\ lastCall'.name \in OperationTypes
                  \cup {"beginComposite", "endComposite"}
           /\ lastCall'.st = "ok")
          => /\ Len(history') = Len(history)
             /\ topLevel'.index = topLevel.index
             /\ history' # <<>>
             /\ history'[Len(history')].opList = block'.ok]_vars

\* the block just closed by endComposite() was opened by beginComposite()
\* and holds exactly one successful Euler call
OneCallBlockClosed ==
    /\ ~aborted
    /\ lastCall.name = "endComposite"
    /\ lastCall.st = "ok"
    /\ block.depth = 0
    /\ block.via = "begin"
    /\ ~block.cut
    /\ Len(block.ok) = 1

\* C8: beginComposite(); one successful Euler call; endComposite() leaves
\* that primitive itself as the last history entry, and replaying it gives
\* what replaying the one-element composite gives
C8_CompositeFlattening ==
    OneCallBlockClosed =>
        /\ history # <<>>
        /\ history[Len(history)] = block.ok[1]
        /\ history[Len(history)].type # "Composite"
        /\ \A i \in DOMAIN segAt :
               \E lv \in {[index |-> i, subIndex |-> 0, seg |-> segAt[i]]} :
                   performOperation(lv, history[Len(history)])
                       = performOperation(lv,
                             CompositeOperation(<<block.ok[1]>>))

\* a one-call block has been closed and its primitive changed the map
C8_Witness ==
    /\ OneCallBlockClosed
    /\ history # <<>>
    /\ history[Len(history)].type = "RemoveEdge"
    /\ topLevel.seg.edgeCount < MapA.edgeCount

\* C9: a successful Euler call, changeIntoComposite(), further successful
\* calls and the matching endComposite() leave history as long as it was
\* before changeIntoComposite() and topLevel.index = history.size(), so that
\* cutAbove is accepted
C9_PostHocWrapping ==
    (/\ ~aborted
     /\ lastCall.name = "endComposite"
     /\ lastCall.st = "ok"
     /\ block.depth = 0
     /\ block.via = "change"
     /\ ~block.cut
     /\ block.startSize > 0
     /\ block.startIndex = block.startSize)
        => /\ Len(history) = block.startSize
           /\ topLevel.index = Len(history)
           /\ cutAbove(Pyramid, topLevel.index).st = "ok"

\* ------------------------------------------------------------------------
\* properties of the map
\* ------------------------------------------------------------------------
\* the darts of edge e in the dart list of node n
Occurrences(m, n, d) ==
    Cardinality({i \in 1..Len(m.nodes[n].darts) : m.nodes[n].darts[i] = d})

\* (I1) of map m
SigmaOrbitsConsistent(m) ==
    /\ \A n \in 1..Len(m.nodes) :
           m.nodes[n].live =>
               \A i \in 1..Len(m.nodes[n].darts) :
                   LET d == m.nodes[n].darts[i]
                   IN /\ IsDart(d)
                      /\ EdgeLive(m, edgeLabel(d))
                      /\ d > 0 => m.edges[edgeLabel(d)].start = n
                      /\ d < 0 => m.edges[edgeLabel(d)].end = n
    /\ \A e \in 1..Len(m.edges) :
           m.edges[e].live =>
               /\ NodeLive(m, m.edges[e].start)
               /\ NodeLive(m, m.edges[e].end)
               /\ Occurrences(m, m.edges[e].start, e) = 1
               /\ Occurrences(m, m.edges[e].end, 0 - e) = 1

\* C10: after any sequence of Euler operations that all returned normally
\* the darts of every live node refer to live edges that start (d > 0) or
\* end (d < 0) at it, and both darts of every live edge occur exactly once
\* at their start node
C10_SigmaOrbitConsistency ==
    (~aborted /\ mapCall.clean) => SigmaOrbitsConsistent(map)

\* the live faces, edges and nodes of map m, by label
LiveFaces(m) == {f \in 0..(Len(m.faces) - 1) : m.faces[f + 1].live}

LiveEdges(m) == {e \in 1..Len(m.edges) : m.edges[e].live}

LiveNodes(m) == {n \in 1..Len(m.nodes) : m.nodes[n].live}

\* the darts of the live edges of m
LiveDarts(m) == {d \in (0 - Len(m.edges))..Len(m.edges) : DartOk(m, d)}

\* walking phi from dart a comes back to a, and every dart on the way has
\* left face f
ClosedContourOf(m, a, f) ==
    /\ DartOk(m, a)
    /\ \E o \in {ContourDarts(m, a)} :
           /\ nextPhi(m, o[Len(o)]) = a
           /\ \A i \in 1..Len(o) :
                  DartOk(m, o[i]) /\ leftFaceLabel(m, o[i]) = f

\* (I3) of map m
PhiOrbitsConsistent(m) ==
    \A f \in LiveFaces(m) :
        \A i \in 1..Len(FaceOf(m, f).anchors) :
            ClosedContourOf(m, FaceOf(m, f).anchors[i], f)

\* C11: after any sequence of Euler operations that all returned normally,
\* every anchor of every live face refers to a live edge, walking nextPhi
\* from it returns to it, and every dart visited has the face as left face
C11_PhiOrbitConsistency ==
    (~aborted /\ mapCall.clean) => PhiOrbitsConsistent(map)

\* the set of darts of the phi-orbit of a
OrbitSet(m, a) ==
    IF ~DartOk(m, a) THEN {}
    ELSE {o[i] : <<o, i>> \in {<<c, j>> \in {ContourDarts(m, a)} \X (1..WalkFuel(m)) : j <= Len(c)}}

\* one anchor per boundary component of the live faces of m
OneAnchorPerContour(m) ==
    \A f \in LiveFaces(m) :
        \E anchors \in {FaceOf(m, f).anchors} :
            /\ \A i, j \in 1..Len(anchors) :
                   i # j => anchors[j] \notin OrbitSet(m, anchors[i])
            /\ \A d \in LiveDarts(m) :
                   leftFaceLabel(m, d) = f =>
                       \E i \in 1..Len(anchors) : d \in OrbitSet(m, anchors[i])

\* C12: after any sequence of Euler operations that all returned normally,
\* no two anchors of a live face lie in the same phi-orbit, and every dart
\* whose left face is f lies in the phi-orbit of some anchor of f
C12_OneAnchorPerComponent ==
    (~aborted /\ mapCall.clean) => OneAnchorPerContour(map)

\* the sum of degree() over the live nodes with label n or more
RECURSIVE DegreeSum(_, _)
DegreeSum(m, n) ==
    IF n > Len(m.nodes) THEN 0
    ELSE (IF m.nodes[n].live THEN Len(m.nodes[n].darts) ELSE 0)
         + DegreeSum(m, n + 1)

\* the live edges of m that start and end at the same node
SelfLoops(m) == {e \in LiveEdges(m) : m.edges[e].start = m.edges[e].end}

\* C13: after construction and after every Euler operation the sum of
\* degree() over the live nodes is twice the number of live edges plus the
\* number of live self-loops
C13_DegreeSum ==
    ~aborted =>
        DegreeSum(map, 1)
            = 2 * Cardinality(LiveEdges(map)) + Cardinality(SelfLoops(map))

Survivor(m, d) ==
    IF leftFaceLabel(m, d) = 0 \/ rightFaceLabel(m, d) = 0 THEN 0
    ELSE IF FaceArea(m, leftFaceLabel(m, d)).v
                >= FaceArea(m, rightFaceLabel(m, d)).v
    THEN leftFaceLabel(m, d)
    ELSE rightFaceLabel(m, d)

\* a call of mergeFaces has just returned normally
MergeFacesStep ==
    ~aborted /\ ~aborted' /\ mapCall'.name = "mergeFaces" /\ mapCall'.st = "ok"

\* C15: mergeFaces(dart) that returns normally leaves the infinite face
\* alive when it is on either side, else the face of larger area (the
\* dart's left face when the areas are equal), and uninitializes the other
\* face; no Euler operation ever removes face 0
C15_MergeFacesSurvivor ==
    [][/\ (~aborted' /\ FaceLive(map, 0)) => FaceLive(map', 0)
       /\ MergeFacesStep =>
              \E sv \in {Survivor(map, mapCall'.arg)} :
                  /\ FaceLive(map', sv)
                  /\ \A f \in {leftFaceLabel(map, mapCall'.arg),
                                rightFaceLabel(map, mapCall'.arg)} \ {sv} :
                         FaceLive(map, f) /\ ~FaceLive(map', f)
                  /\ LiveFaces(map') = LiveFaces(map)
                         \ ({leftFaceLabel(map, mapCall'.arg),
                              rightFaceLabel(map, mapCall'.arg)} \ {sv})]_vars

\* on MapD mergeFaces(dart 2) has merged face 1, the face around the inner
\* square, into face 3, the inner square on the dart's left: the two have
\* the same area
C15_Witness ==
    /\ ~aborted
    /\ mapCall.clean
    /\ mapCall.name = "mergeFaces"
    /\ mapCall.st = "ok"
    /\ mapCall.arg = 2
    /\ Len(map.faces) = Len(MapD.faces)
    /\ LiveFaces(map) = {0, 3, 6}

\* ------------------------------------------------------------------------
\* properties of the hooks and of the preconditions
\* ------------------------------------------------------------------------
\* the operations that call a pre-hook
HookedOperations == {"mergeEdges", "removeBridge", "mergeFaces"}

\* map m satisfies (I1) and (I3)
WellFormed(m) == SigmaOrbitsConsistent(m) /\ PhiOrbitsConsistent(m)

\* C16: when a preMergeEdges, preRemoveBridge or preMergeFaces hook is set
\* to return false, the operation, called on a well-formed map, fails and
\* the map is as before the call: dart lists, end nodes, face labels,
\* anchors and counts
C16_VetoLeavesMapUntouched ==
    [][(/\ ~aborted
        /\ WellFormed(map)
        /\ mapCall'.name \in HookedOperations
        /\ ~mapCall'.h.pre)
          => /\ mapCall'.st = "throw"
             /\ SegView(map') = SegView(map)]_vars

\* C17: when the removeNode hooks are set to return false, no operation
\* called on a well-formed map removes a node: removeIsolatedNode of an
\* isolated node fails and the node stays live and counted, and
\* removeBridge and mergeFaces leave the end nodes of the removed edge alive
C17_NoNodeRemovedAgainstVeto ==
    [][(/\ ~aborted
        /\ WellFormed(map)
        /\ ~mapCall'.h.removeNode
        /\ mapCall'.name = "removeIsolatedNode"
               => IsolatedNode(map, mapCall'.arg))
          => /\ LiveNodes(map') = LiveNodes(map)
             /\ map'.nodeCount = map.nodeCount
             /\ mapCall'.name = "removeIsolatedNode"
                    => mapCall'.st = "throw"]_vars

\* the call name(d) on map m is outside the operation's precondition
OutsidePrecondition(m, name, d) ==
    /\ DartOk(m, d)
    /\ NodeLive(m, startNodeLabel(m, d))
    /\ \/ /\ name = "mergeEdges"
          /\ \E darts \in {m.nodes[startNodeLabel(m, d)].darts} :
                 \/ Len(darts) # 2
                 \/ {edgeLabel(darts[i]) : i \in 1..Len(darts)}
                        = {edgeLabel(d)}
       \/ /\ name = "removeBridge"
          /\ \/ leftFaceLabel(m, d) # rightFaceLabel(m, d)
             \/ startNodeLabel(m, d) = endNodeLabel(m, d)
       \/ /\ name = "mergeFaces"
          /\ leftFaceLabel(m, d) = rightFaceLabel(m, d)

\* C18: mergeEdges on a dart whose start node has not degree 2 or carries
\* one self-loop only, removeBridge on a non-bridge or a self-loop, and
\* mergeFaces on a bridge raise an error and leave dart lists, anchors,
\* labels and counts as they were
C18_PreconditionViolationsFail ==
    [][(~aborted /\ OutsidePrecondition(map, mapCall'.name, mapCall'.arg))
          => /\ mapCall'.st = "throw"
             /\ SegView(map') = SegView(map)]_vars

\* C19: removeIsolatedNode on a live node that still has darts raises an
\* error and leaves the map as it was: the node stays live and counted
C19_RemoveIsolatedNodeNeedsDegree0 ==
    [][(/\ ~aborted
        /\ mapCall'.name = "removeIsolatedNode"
        /\ NodeLive(map, mapCall'.arg)
        /\ map.nodes[mapCall'.arg].darts # <<>>)
          => /\ mapCall'.st = "throw"
             /\ NodeLive(map', mapCall'.arg)
             /\ SegView(map') = SegView(map)]_vars

\* the points of edge e of map m, in either direction
EitherDirection(m, e) == {m.edges[e].points, Reverse(m.edges[e].points)}

\* C20: mergeEdges(dart) that returns normally on a well-formed map keeps
\* the edge of the given dart and removes the edge of dart.nextSigma(): the
\* dart's edge is live and is the returned edge, the other edge is gone,
\* and the survivor joins the far nodes of the two edges with the geometry
\* of both
C20_MergeEdgesKeepsDartsEdge ==
    [][(/\ ~aborted /\ ~aborted'
        /\ WellFormed(map)
        /\ mapCall'.name = "mergeEdges"
        /\ mapCall'.st = "ok")
          => \E d \in {mapCall'.arg} :
               \E o \in {nextSigma(map, d, 1)} :
                 /\ EdgeLive(map', edgeLabel(d))
                 /\ ~EdgeLive(map', edgeLabel(o))
                 /\ mergeEdges(map, d, mapCall'.h).ret = edgeLabel(d)
                 /\ {map'.edges[edgeLabel(d)].start, map'.edges[edgeLabel(d)].end}
                        = {endNodeLabel(map, d), endNodeLabel(map, o)}
                 /\ EitherDirection(map', edgeLabel(d))
                        = {Extend(Reverse(DartPoints(map, d)),
                                  DartPoints(map, o)),
                           Extend(Reverse(DartPoints(map, o)),
                                  DartPoints(map, d))}]_vars

\* mergeEdges(dart) that returns normally keeps the edge of
\* dart.nextSigma() and removes the edge of the given dart: the edge of
\* dart.nextSigma() is live and is the returned edge, the given dart's edge
\* is gone, and the survivor joins the far nodes of the two edges with the
\* geometry of both
C20_MergeEdgesKeepsNextSigmasEdge ==
    [][(/\ ~aborted /\ ~aborted'
        /\ mapCall'.name = "mergeEdges"
        /\ mapCall'.st = "ok")
          => \E o \in {mapCall'.arg} :
               \E d \in {nextSigma(map, o, 1)} :
                 /\ EdgeLive(map', edgeLabel(d))
                 /\ ~EdgeLive(map', edgeLabel(o))
                 /\ mergeEdges(map, o, mapCall'.h).ret = edgeLabel(d)
                 /\ {map'.edges[edgeLabel(d)].start, map'.edges[edgeLabel(d)].end}
                        = {endNodeLabel(map, d), endNodeLabel(map, o)}
                 /\ EitherDirection(map', edgeLabel(d))
                        = {Extend(Reverse(DartPoints(map, d)),
                                  DartPoints(map, o)),
                           Extend(Reverse(DartPoints(map, o)),
                                  DartPoints(map, d))}]_vars

\* a merge of two edges of different length has returned: the given dart's
\* edge is gone and an edge with three points is live
C20_Witness ==
    /\ ~aborted
    /\ mapCall.clean
    /\ mapCall.name = "mergeEdges"
    /\ mapCall.st = "ok"
    /\ Len(map.nodes) = Len(MapC.nodes)
    /\ ~EdgeLive(map, edgeLabel(mapCall.arg))
    /\ \E e \in LiveEdges(map) : Len(map.edges[e].points) = 3

\* the end nodes of dart d's edge that have no dart of another edge
EndsLeftAlone(m, d) ==
    {n \in {startNodeLabel(m, d), endNodeLabel(m, d)} :
        \A i \in 1..Len(m.nodes[n].darts) :
            edgeLabel(m.nodes[n].darts[i]) = edgeLabel(d)}

RemoveEdgeWithEndsStep ==
    /\ ~aborted /\ ~aborted'
    /\ mapCall'.name = "removeEdgeWithEnds"
    /\ mapCall'.st = "ok"

EndpointsPinned(m) ==
    \A e \in LiveEdges(m) :
        /\ NodeLive(m, m.edges[e].start)
        /\ NodeLive(m, m.edges[e].end)
        /\ m.edges[e].points[1] = m.nodes[m.edges[e].start].pos
        /\ m.edges[e].points[Len(m.edges[e].points)]
              = m.nodes[m.edges[e].end].pos

\* C22: on a well-formed map with pinned end points every operation (the
\* removal of a node being one of an isolated node) leaves the end points
\* pinned, and setPosition on a live node of any degree returns normally
\* with the node at its new position
C22_EndpointPinning ==
    [][(/\ ~aborted /\ ~aborted'
        /\ WellFormed(map) /\ EndpointsPinned(map)
        /\ (mapCall'.name = "removeIsolatedNode"
              => IsolatedNode(map, mapCall'.arg)))
         => /\ EndpointsPinned(map')
            /\ (mapCall'.name = "setPosition"
                 /\ NodeLive(map, mapCall'.arg))
                  => /\ mapCall'.st = "ok"
                     /\ map'.nodes[mapCall'.arg].pos \in Positions]_vars

\* the representatives of LabelLUT l
Representatives(l) == {i \in DOMAIN l.labelLUT : l.labelLUT[i] = i}

\* C23: after initIdentity and relabel calls on distinct representatives,
\* every label maps to a representative, and the iteration from a
\* representative r ends and yields the labels mapped to r, each once
C23_LabelLUT ==
    lut.clean =>
      /\ lut.st = "ok"
      /\ \A i \in DOMAIN lut.l.labelLUT :
             lut.l.labelLUT[lut.l.labelLUT[i]] = lut.l.labelLUT[i]
      /\ \A r \in Representatives(lut.l) :
             \E it \in {mergedBegin(lut.l, r)} :
                /\ it.atEnd
                /\ {it.seq[k] : k \in 1..Len(it.seq)}
                      = {i \in DOMAIN lut.l.labelLUT : lut.l.labelLUT[i] = r}
                /\ \A j, k \in 1..Len(it.seq) :
                       it.seq[j] = it.seq[k] => j = k

\* a list was relabelled into a representative that had a list already
C23_Witness ==
    /\ lut.clean
    /\ Cardinality(Representatives(lut.l)) = 1
    /\ \E i \in DOMAIN lut.l.labelLUT :
           /\ lut.l.prevMerged[i] # i
           /\ lut.l.prevMerged[lut.l.prevMerged[i]] # lut.l.prevMerged[i]
           /\ lut.l.labelLUT[i] # lut.l.prevMerged[i]

\* C24: the entry nearest() last returned is end() exactly when no stored
\* point is closer to the query than the squared radius, and is otherwise
\* a stored point no other stored point is closer than
C24_NearestIsExhaustive ==
    LET n == Len(map2d.vectors)
        within == {i \in 1..n : squaredNorm(map2d.vectors[i], map2d.v)
                                  < map2d.maxSquaredDist}
    IN /\ map2d.found \in 1..(n + 1)
       /\ map2d.found = n + 1 <=> within = {}
       /\ map2d.found # n + 1 =>
             /\ map2d.found \in within
             /\ \A i \in 1..n :
                    squaredNorm(map2d.vectors[map2d.found], map2d.v)
                      <= squaredNorm(map2d.vectors[i], map2d.v)

\* the nearest point lies below the query's first coordinate while another
\* stored point lies above it within the radius
C24_Witness ==
    /\ Len(map2d.vectors) = 3
    /\ map2d.found \in 1..3
    /\ map2d.vectors[map2d.found][1] < map2d.v[1]
    /\ \E i \in 1..3 :
           /\ map2d.vectors[i][1] > map2d.v[1]
           /\ squaredNorm(map2d.vectors[i], map2d.v) < map2d.maxSquaredDist
           /\ squaredNorm(map2d.vectors[i], map2d.v)
                 > squaredNorm(map2d.vectors[map2d.found], map2d.v)

NextCheckpointAfter(level) ==
    level.subIndex
      + Max((level.seg.nodeCount + level.seg.edgeCount
               + level.seg.faceCount) \div 4, MinCheckpointDist)

\* a cutAbove(idx) that returned and lowered the index of the top level
TruncatingCut ==
    /\ ~aborted /\ ~aborted'
    /\ lastCall'.name = "cutAbove"
    /\ lastCall'.st = "ok"
    /\ topLevel'.index < topLevel.index

\* C26: after a cutAbove(idx) that truncates, the checkpoint store has a
\* checkpoint with key idx and the next checkpoint is scheduled from the
\* new top level
C26_CutStoresCheckpointAtTop ==
    [][TruncatingCut
         => /\ lastCall'.arg \in DOMAIN checkpoints'
            /\ nextCheckpointLevelIndex' = NextCheckpointAfter(topLevel')]_vars

\* after a cutAbove(idx) that truncates, the checkpoint store holds the
\* checkpoints it had with keys up to idx and no other, and the next
\* checkpoint is scheduled from the last of them
C26_CutReschedulesFromLastCheckpoint ==
    [][TruncatingCut
         => /\ topLevel'.index = lastCall'.arg
            /\ checkpoints'
                 = [k \in {j \in DOMAIN checkpoints : j <= lastCall'.arg}
                      |-> checkpoints[k]]
            /\ nextCheckpointLevelIndex'
                 = NextCheckpointAfter(
                     checkpoints[LastCheckpointKey(checkpoints,
                                                   lastCall'.arg)])]_vars

\* a handle of a level that was cut away is still held, the last pyramid
\* call was the cutAbove, and the new top level has no checkpoint
C26_Witness ==
    /\ ~aborted
    /\ handle.lv.index > Len(history)
    /\ lastCall.name = "cutAbove"
    /\ lastCall.st = "ok"
    /\ lastCall.arg = topLevel.index
    /\ topLevel.index \notin DOMAIN checkpoints
    /\ nextCheckpointLevelIndex # NextCheckpointAfter(topLevel)

\* ------------------------------------------------------------------------
\* sortEdgesEventually on a map built with addNode and addEdge
\* ------------------------------------------------------------------------
\* the arguments of sortEdgesEventually(stepDist, minDist): minDist is
\* 1 / MinDistInv
StepDist == 100

MinDistInv == 100

\* DartPosition::intersectCircle(center, radius2) runs to the end of the
\* edge: every point after the first lies inside the circle
RunsToEnd(m, d, center, radius2) ==
    \A i \in 1..(Len(m.edges[edgeLabel(d)].points) - 1) :
        squaredNorm(DartPoint(m, d, i), center) < radius2

\* every dart of every node runs to its end in the first round
WithinStep(m) ==
    \A n \in 1..Len(m.nodes) :
        m.nodes[n].live =>
            \A i \in 1..Len(m.nodes[n].darts) :
                RunsToEnd(m, m.nodes[n].darts[i], m.nodes[n].pos,
                          StepDist * StepDist)

\* the vector whose atan2 is absAngle after the first round, the dart
\* position being the end of the edge: <<dx, dy>> with
\* dy = -dp()[1] + currentPos[1]; atan2(0, 0) is 0, the angle of <<1, 0>>
EndDirection(m, n, d) ==
    LET last == DartPoint(m, d, Len(m.edges[edgeLabel(d)].points) - 1)
        v == <<last[1] - m.nodes[n].pos[1], m.nodes[n].pos[2] - last[2]>>
    IN IF v = <<0, 0>> THEN <<1, 0>> ELSE v

\* position of normAngle(absAngle - 0.0) in [-pi, pi): the angle pi is
\* moved to -pi
NormSector(v) ==
    IF v[2] = 0 /\ v[1] < 0 THEN 0
    ELSE IF v[2] < 0 THEN 1
    ELSE IF v[2] = 0 THEN 2
    ELSE 3

\* DartPositionAngle::operator<
NormAngleLess(a, b) ==
    IF NormSector(a) # NormSector(b) THEN NormSector(a) < NormSector(b)
    ELSE a[1] * b[2] - a[2] * b[1] > 0

\* b.angle < a.angle + minAngle for a sorted before b, with
\* minAngle = atan2(minDist, stepDist)
SameGroup(a, b) ==
    /\ ~NormAngleLess(b, a)
    /\ a[1] * b[2] - a[2] * b[1] >= 0
    /\ a[1] * b[1] + a[2] * b[2] > 0
    /\ StepDist * MinDistInv * (a[1] * b[2] - a[2] * b[1])
         < a[1] * b[1] + a[2] * b[2]

\* sortEdgesInternal for the darts of node n, all of which run to their
\* end in the first round: a group of more than one dart is unsortable in
\* the recursive call; [st, darts]
sortEdgesInternal(m, n) ==
    LET darts == m.nodes[n].darts
        dir(d) == EndDirection(m, n, d)
        ds == {darts[j] : j \in 1..Len(darts)}
    IN IF Len(darts) < 2 THEN [st |-> "ok", darts |-> darts]
       ELSE IF \E i, j \in 1..Len(darts) :
                   i # j /\ SameGroup(dir(darts[i]), dir(darts[j]))
       THEN [st |-> "throw", darts |-> darts]
       ELSE [st |-> "ok",
             darts |-> [i \in 1..Len(darts) |->
                 CHOOSE d \in ds :
                     Cardinality({e \in ds :
                         NormAngleLess(dir(e), dir(d))}) = i - 1]]

\* GeoMap::sortEdgesEventually, the loop over the nodes from label n on:
\* the darts of a node are written back before the next node is sorted
RECURSIVE SortEventuallyFrom(_, _)
SortEventuallyFrom(m, n) ==
    IF n > Len(m.nodes) THEN Ok(m)
    ELSE IF ~m.nodes[n].live THEN SortEventuallyFrom(m, n + 1)
    ELSE With(sortEdgesInternal(m, n), LAMBDA s :
           IF s.st # "ok" THEN Throw(m)
           ELSE SortEventuallyFrom(
                    [m EXCEPT !.nodes[n].darts = s.darts], n + 1))

\* GeoMap::sortEdgesEventually(StepDist, 1 / MinDistInv); [st, m]
sortEdgesEventually(m) == SortEventuallyFrom(m, 1)

\* the nodes edges are added between: node 1 off the line through the
\* nodes 2, 3 and 4
SortNodes == << <<4, 3>>, <<0, 0>>, <<4, 0>>, <<8, 0>> >>

MaxSortEdges == 4

\* map.addEdge(s, e, points) with the straight line between the two nodes
MapAddEdge(s, e) ==
    /\ ~aborted
    /\ map.edgeCount < MaxSortEdges
    /\ \E r \in {addEdge(map, s, e, <<map.nodes[s].pos, map.nodes[e].pos>>)} :
           MapReturns("addEdge", <<s, e>>, NoVeto, r)

\* map.sortEdgesEventually(StepDist, 1 / MinDistInv)
MapSortEdgesEventually ==
    /\ ~aborted
    /\ WithinStep(map)
    /\ \E r \in {sortEdgesEventually(map)} :
           MapReturns("sortEdgesEventually", 0, NoVeto, r)

NextSort ==
    \/ \E s, e \in 1..Len(SortNodes) : s # e /\ MapAddEdge(s, e)
    \/ MapSortEdgesEventually

InitSort == Constructed(AddNodes(EmptyMap, SortNodes))

\* a map under construction: edges are added and the darts sorted
SpecSort == InitSort /\ [][NextSort]_vars

\* C27: when sortEdgesEventually fails with an unsortable group, every node
\* of the map has the dart order it had before the call
C27_SortFailureKeepsDartOrder ==
    [][(/\ ~aborted
        /\ mapCall'.name = "sortEdgesEventually"
        /\ mapCall'.st = "throw")
         => \A n \in 1..Len(map.nodes) :
                map'.nodes[n].darts = map.nodes[n].darts]_vars

\* a step in which handle.approachLevel(target, maxSteps) ran to its end
ApproachLevelStep ==
    /\ ~aborted /\ ~aborted'
    /\ handle'.call.name = "approachLevel"
    /\ handle'.call.st # "ub"
    /\ UNCHANGED <<history, checkpoints, topLevel, lastCall>>

\* C28: approachLevel(target, maxSteps) replays at most maxSteps history
\* entries, one less after a restore from a checkpoint, and returns true
\* exactly when the level's index equals target on return
C28_ApproachLevelBounded ==
    [][ApproachLevelStep
         => LET c == handle'.call
                g == gotoLastCheckpointBefore(handle.lv, checkpoints,
                                              c.target)
                replayed == handle'.lv.index - g.lv.index
            IN /\ replayed >= 0
               /\ replayed <= c.maxSteps
               /\ (g.restored /\ c.maxSteps >= 1)
                    => replayed <= c.maxSteps - 1
               /\ c.st = "ok" => (c.ret <=> handle'.lv.index = c.target)
               /\ c.st = "ok" => handle'.lv.index <= c.target]_vars

\* approachLevel(target, 1) returned false with the handle at level 0 below
\* its target: the one step went into the restore of checkpoint 0, after
\* which nothing was replayed
C28_Witness ==
    /\ ~aborted
    /\ handle.call.name = "approachLevel"
    /\ handle.call.st = "ok"
    /\ handle.call.maxSteps = 1
    /\ handle.call.target >= 1
    /\ ~handle.call.ret
    /\ handle.lv.index = 0

\* ------------------------------------------------------------------------
\* bounded navigation: while(!handle.approachLevel(target, maxSteps)) ;
\* ------------------------------------------------------------------------
\* the last approachLevel returned false: the loop calls it again
Pending ==
    /\ handle.call.name = "approachLevel"
    /\ handle.call.st = "ok"
    /\ ~handle.call.ret

\* the next round of the loop, with the arguments of the last call
ApproachAgain ==
    /\ Pending
    /\ HandleApproachLevel(handle.call.target, handle.call.maxSteps)

\* the loop is entered, or entered again after it ended
StartApproach(target, maxSteps) ==
    /\ ~Pending
    /\ HandleApproachLevel(target, maxSteps)

\* the pyramid is built and cut only while no navigation loop is running
NextApproach ==
    \/ ~Pending /\ \E op \in UserOps : EulerCall(op[1], op[2])
    \/ ~Pending /\ \E i \in 0..MaxHist : CutAbove(i)
    \/ ~Pending /\ StoreCheckpoint
    \/ ~Pending /\ \E i \in 0..MaxHist : GetLevel(i)
    \/ \E i \in 0..MaxHist, n \in StepCounts \ {0} : StartApproach(i, n)
    \/ ApproachAgain

\* a loop that is running goes on to its next round
SpecApproach ==
    Init /\ [][NextApproach]_vars /\ WF_vars(ApproachAgain)

\* approachLevel(target, maxSteps >= 1) was called on the handle
NavStarted ==
    /\ ~aborted
    /\ handle.call.name = "approachLevel"
    /\ handle.call.maxSteps >= 1

\* the last approachLevel returned true with the handle at its target
Arrived ==
    /\ handle.call.name = "approachLevel"
    /\ handle.call.st = "ok"
    /\ handle.call.ret
    /\ handle.lv.index = handle.call.target

\* C29: for target < levelCount() and maxSteps >= 1, repeating
\* approachLevel(target, maxSteps) reaches the target after finitely many
\* calls
C29_ApproachReachesTarget == NavStarted ~> Arrived

\* a step in which handle.gotoLevel(target) ran while level target of the
\* pyramid can be built
GotoLevelStep ==
    /\ ~aborted
    /\ handle'.call.name = "gotoLevel"
    /\ UNCHANGED <<history, checkpoints, topLevel, lastCall>>
    /\ handle'.call.target < levelCount(Pyramid)
    /\ getLevel(Pyramid, handle'.call.target).st = "ok"

\* two levels are the same level: index, subIndex and segmentation
SameLevel(a, b) ==
    /\ a.index = b.index
    /\ a.subIndex = b.subIndex
    /\ SegView(a.seg) = SegView(b.seg)

\* C30: L.gotoLevel(target) on a handle obtained earlier from getLevel leaves
\* L equal to what getLevel(target) returns at that moment, also after
\* cutAbove and new operations
C30_GotoLevelEqualsGetLevel ==
    [][GotoLevelStep
         => /\ handle'.call.st = "ok"
            /\ ~aborted'
            /\ SameLevel(handle'.lv,
                         getLevel(Pyramid, handle'.call.target).lv)]_vars

\* ------------------------------------------------------------------------
\* checkpoints, composites and the nesting counter
\* ------------------------------------------------------------------------
\* the checkpoint under key k is level k of the current history
CheckpointAgrees(k) ==
    /\ checkpoints[k].index = k
    /\ k <= Len(history)
    /\ \E f \in {FullReplay(k)} :
           /\ f.st = "ok"
           /\ SegView(checkpoints[k].seg) = SegView(f.lv.seg)

\* C31: every checkpoint stored under key k holds a level with index
\* k <= history.size() whose segmentation is the initial segmentation
\* advanced by history entries 0 .. k-1 of the current history
C31_CheckpointsAgreeWithHistory ==
    AtRest => \A k \in DOMAIN checkpoints : CheckpointAgrees(k)

OutermostEndStep ==
    /\ ~aborted /\ ~aborted'
    /\ composing = 1
    /\ composing' = 0
    /\ lastCall'.name = "endComposite"
    /\ lastCall'.st = "ok"

C33_StrayEndCompositeIsNoOp ==
    [][(~aborted /\ composing = 0 /\ lastCall'.name = "endComposite")
         => /\ history' = history
            /\ topLevel'.index = topLevel.index
            /\ checkpoints' = checkpoints
            /\ composing' = 0]_vars

\* ------------------------------------------------------------------------
\* the Euler operations in detail
\* ------------------------------------------------------------------------
\* mergeEdges returned normally on a well-formed map
MergeEdgesStep ==
    /\ ~aborted /\ ~aborted'
    /\ WellFormed(map)
    /\ mapCall'.name = "mergeEdges"
    /\ mapCall'.st = "ok"

\* C34: mergeEdges at a node n of degree 2 removes n and one of the two
\* edges; the surviving edge joins the two far nodes, the dart list of the
\* far node of the removed edge has that edge's dart replaced in place by
\* the survivor's dart, every other dart list is unchanged, the survivor
\* keeps its left and right face, nodeCount and edgeCount fall by 1 and
\* faceCount is unchanged
C34_MergeEdgesInPlace ==
    [][MergeEdgesStep
         => \E o \in {mapCall'.arg} :
              \E d1 \in {nextSigma(map, o, 1)} :
                LET s == edgeLabel(d1)
                    g == edgeLabel(o)
                    n == startNodeLabel(map, o)
                    a == endNodeLabel(map, d1)
                    b == endNodeLabel(map, o)
                    old == map.nodes[b].darts
                IN /\ s # g
                   /\ Len(map.nodes[n].darts) = 2
                   /\ ~NodeLive(map', n)
                   /\ ~EdgeLive(map', g)
                   /\ EdgeLive(map', s)
                   /\ {map'.edges[s].start, map'.edges[s].end} = {a, b}
                   /\ startNodeLabel(map', d1) = b
                   /\ map'.nodes[b].darts
                        = [old EXCEPT ![IndexOf(old, nextAlpha(o))] = d1]
                   /\ \A k \in 1..Len(map.nodes) :
                          (k # n /\ k # b)
                              => map'.nodes[k] = map.nodes[k]
                   /\ \A e \in 1..Len(map.edges) :
                          (e # s /\ e # g)
                              => map'.edges[e] = map.edges[e]
                   /\ map'.edges[s].left = map.edges[s].left
                   /\ map'.edges[s].right = map.edges[s].right
                   /\ map'.nodeCount = map.nodeCount - 1
                   /\ map'.edgeCount = map.edgeCount - 1
                   /\ map'.faceCount = map.faceCount]_vars

\* on MapB mergeEdges(dart 1) at node 1 has removed edge 1, whose far node 2
\* has three darts, dart -1 among them before the call
C34_Witness ==
    /\ ~aborted
    /\ mapCall.clean
    /\ mapCall.name = "mergeEdges"
    /\ mapCall.arg = 1
    /\ map.edgeCount = MapB.edgeCount - 1
    /\ Len(map.nodes) = Len(MapB.nodes)
    /\ ~EdgeLive(map, 1)
    /\ Len(map.nodes[2].darts) = 3
    /\ map.nodes[2].darts # MapB.nodes[2].darts

\* the Euler operations on a path all of whose edges are bridges
InitBridge == Constructed(MapE)

SpecBridge == InitBridge /\ [][NextMap]_vars

\* removeBridge returned normally on a well-formed map
RemoveBridgeStep ==
    /\ ~aborted /\ ~aborted'
    /\ WellFormed(map)
    /\ mapCall'.name = "removeBridge"
    /\ mapCall'.st = "ok"

\* the end nodes of dart d that have no other dart
PendantEnds(m, d) ==
    {k \in {startNodeLabel(m, d), endNodeLabel(m, d)} :
        Len(m.nodes[k].darts) = 1}

\* C35: removeBridge(dart) on a non-loop bridge of face f removes that edge
\* and no other, and of the nodes exactly the end nodes that become
\* isolated; faceCount is unchanged and the number of anchors of f changes
\* by +1 minus the number of end nodes removed
C35_RemoveBridgeAnchors ==
    [][RemoveBridgeStep
         => \E d \in {mapCall'.arg} :
              LET f == leftFaceLabel(map, d)
                  gone == PendantEnds(map, d)
              IN /\ startNodeLabel(map, d) # endNodeLabel(map, d)
                 /\ rightFaceLabel(map, d) = f
                 /\ LiveEdges(map') = LiveEdges(map) \ {edgeLabel(d)}
                 /\ LiveNodes(map') = LiveNodes(map) \ gone
                 /\ LiveFaces(map') = LiveFaces(map)
                 /\ map'.edgeCount = map.edgeCount - 1
                 /\ map'.nodeCount = map.nodeCount - Cardinality(gone)
                 /\ map'.faceCount = map.faceCount
                 /\ Len(FaceOf(map', f).anchors)
                      = Len(FaceOf(map, f).anchors) + 1 - Cardinality(gone)
                 /\ \A g \in LiveFaces(map) \ {f} :
                        FaceOf(map', g).anchors = FaceOf(map, g).anchors]_vars

\* the middle edge of the path MapE has been removed: no node went with
\* it and the infinite face has one anchor more
C35_Witness ==
    /\ ~aborted
    /\ mapCall.clean
    /\ mapCall.name = "removeBridge"
    /\ ~EdgeLive(map, 2)
    /\ map.edgeCount = MapE.edgeCount - 1
    /\ map.nodeCount = MapE.nodeCount
    /\ Len(FaceOf(map, 0).anchors) = Len(FaceOf(MapE, 0).anchors) + 1

\* the edge of dart d is a self-loop and the only edge at its node: it is
\* an entire contour on both of its sides
LoneSelfLoop(m, d) ==
    /\ startNodeLabel(m, d) = endNodeLabel(m, d)
    /\ Len(m.nodes[startNodeLabel(m, d)].darts) = 2

\* C36: after mergeFaces the survivor has the anchors of both faces less
\* one, and one less again exactly when the removed edge was a self-loop
\* that is an entire contour on both sides; the node of such a loop is
\* removed (once), no node is removed otherwise; faceCount and edgeCount
\* fall by 1
C36_MergeFacesAnchorCount ==
    [][(MergeFacesStep /\ WellFormed(map))
         => \E d \in {mapCall'.arg} :
              \E sv \in {Survivor(map, d)} :
                LET mf == CHOOSE f \in {leftFaceLabel(map, d),
                                        rightFaceLabel(map, d)} : f # sv
                    lone == LoneSelfLoop(map, d)
                IN /\ Len(FaceOf(map', sv).anchors)
                        = Len(FaceOf(map, sv).anchors)
                          + Len(FaceOf(map, mf).anchors) - 1
                          - (IF lone THEN 1 ELSE 0)
                   /\ LiveNodes(map')
                        = LiveNodes(map)
                          \ (IF lone THEN {startNodeLabel(map, d)} ELSE {})
                   /\ map'.nodeCount
                        = map.nodeCount - (IF lone THEN 1 ELSE 0)
                   /\ map'.faceCount = map.faceCount - 1
                   /\ map'.edgeCount = map.edgeCount - 1]_vars

\* on MapD mergeFaces(dart 2) has removed the square at node 2, a self-loop
\* alone at its node: the node went with it and the face around it has one
\* anchor less
C36_Witness ==
    /\ ~aborted
    /\ mapCall.clean
    /\ mapCall.name = "mergeFaces"
    /\ mapCall.arg = 2
    /\ ~NodeLive(map, 2)
    /\ map.nodeCount = MapD.nodeCount - 1
    /\ map.edgeCount = MapD.edgeCount - 1
    /\ \E f \in LiveFaces(map) :
           Len(FaceOf(map, f).anchors) = 2

\* ------------------------------------------------------------------------
\* the Euler operations on a map with a label image
\* ------------------------------------------------------------------------
PixelDarts == {d \in (0 - Len(MapP.edges))..Len(MapP.edges) : d # 0}

\* mergeEdges, removeBridge and mergeFaces, the operations that write the
\* label image
NextPixels ==
    \/ \E d \in PixelDarts : MapMergeEdges(d, NoVeto)
    \/ \E d \in PixelDarts : MapRemoveBridge(d, NoVeto)
    \/ \E d \in PixelDarts : MapMergeFaces(d, NoVeto)

InitPixels == Constructed(MapP)

SpecPixels == InitPixels /\ [][NextPixels]_vars

\* C37: when the post-hook of mergeEdges, removeBridge or mergeFaces runs,
\* the map is already as the operation leaves it: removed cells
\* uninitialized, counts final, and the pixels reclaimed from the removed
\* edge counted in the surviving face's pixelArea
C37_PostHookSeesFinalMap ==
    (/\ ~aborted
     /\ mapCall.st = "ok"
     /\ mapCall.name \in HookedOperations) => mapCall.post = map

\* the pixels that the rasterization of at least one live edge covers
LiveEdgePixels(m) ==
    UNION {scanPoly(m.edges[e].points, m.imageSize) : e \in LiveEdges(m)}

\* C38: with a label image, after any sequence of Euler operations every
\* pixel under a live edge holds -1 and every other pixel holds a label
\* >= 0 that faceLabelLUT resolves to the live face containing the pixel
C38_LabelImageLockstep ==
    (~aborted /\ mapCall.clean /\ map.labelImage) =>
       \A p \in DOMAIN map.pixels :
          IF p \in LiveEdgePixels(map) THEN map.pixels[p] = 0 - 1
          ELSE /\ map.pixels[p] >= 0
               /\ map.pixels[p] < Len(map.faceLabelLUT)
               /\ FaceLive(map, map.faceLabelLUT[map.pixels[p] + 1])
               /\ FaceContains(map, map.faceLabelLUT[map.pixels[p] + 1], p)

\* ------------------------------------------------------------------------
\* the positioned node index
\* ------------------------------------------------------------------------
MaxIndexNodes == 3

\* positions on one vertical line and beside it
IndexPositions == {<<0, 0>>, <<0, 1>>, <<1, 0>>}

\* map.addNode(position)
MapAddNode(p) ==
    /\ ~aborted
    /\ Len(map.nodes) < MaxIndexNodes
    /\ \E r \in {Ok(addNode(map, p))} : MapReturns("addNode", p, NoVeto, r)

\* addNode, Node.setPosition and removeIsolatedNode on a map that starts
\* empty
InitIndex == Constructed(EmptyMap)

NextIndex ==
    \/ \E p \in IndexPositions : MapAddNode(p)
    \/ \E n \in 1..MaxIndexNodes, p \in IndexPositions : MapSetPosition(n, p)
    \/ \E n \in 1..MaxIndexNodes : MapRemoveIsolatedNode(n, NoVeto)

SpecIndex == InitIndex /\ [][NextIndex]_vars

\* the entries of the index of m, and the entries it ought to have
IndexEntries(m) == {m.nodeMap[i] : i \in 1..Len(m.nodeMap)}

NodeEntries(m) ==
    {<<m.nodes[n].pos[1], m.nodes[n].pos[2], n>> : n \in LiveNodes(m)}

\* C39: the positioned index holds exactly one entry (position, label) per
\* live node and none for a removed node, also when nodes share a
\* position; so nearestNode yields no removed node and finds at the
\* position of every live node a live node that is there
C39_NodeIndexLockstep ==
    ~aborted =>
       /\ Len(map.nodeMap) = Cardinality(LiveNodes(map))
       /\ IndexEntries(map) = NodeEntries(map)
       /\ \A p \in IndexPositions, r \in {Epsilon, 2, 100} :
              nearestNode(map, p, r) # 0 =>
                 NodeLive(map, nearestNode(map, p, r))
       /\ \A n \in LiveNodes(map) :
              /\ nearestNode(map, map.nodes[n].pos, Epsilon) # 0
              /\ NodeLive(map, nearestNode(map, map.nodes[n].pos, Epsilon))

\* ------------------------------------------------------------------------
\* initContours on a map under construction
\* ------------------------------------------------------------------------
\* map.sortEdgesDirectly()
MapSortEdgesDirectly ==
    /\ ~aborted
    /\ \E r \in {Ok(sortEdgesDirectly(map))} :
           MapReturns("sortEdgesDirectly", 0, NoVeto, r)

\* map.initContours()
MapInitContours ==
    /\ ~aborted
    /\ \E r \in {initContours(map)} :
           MapReturns("initContours", 0, NoVeto, [st |-> r.st, m |-> r.m])

MaxContourEdges == 3

ContourNodes == << <<4, 3>>, <<0, 0>>, <<4, 0>> >>

\* map.addEdge(s, e, points) with a straight edge between two of the nodes
MapAddContourEdge(s, e) ==
    /\ ~aborted
    /\ map.edgeCount < MaxContourEdges
    /\ \E r \in {addEdge(map, s, e, <<map.nodes[s].pos, map.nodes[e].pos>>)} :
           MapReturns("addEdge", <<s, e>>, NoVeto, r)

NextContours ==
    \/ \E s, e \in 1..Len(ContourNodes) : s # e /\ MapAddContourEdge(s, e)
    \/ MapSortEdgesDirectly
    \/ MapInitContours

InitContoursMap == Constructed(AddNodes(EmptyMap, ContourNodes))

SpecContours == InitContoursMap /\ [][NextContours]_vars

\* every node's darts are in the order sortEdgesDirectly gives them
SigmaSorted(m) == sortEdgesDirectly(m) = m

\* the darts of the phi-orbit of d
PhiOrbit(m, d) ==
    With(ContourDarts(m, d), LAMBDA o : {o[i] : i \in 1..Len(o)})

InitContoursStep ==
    ~aborted /\ ~aborted' /\ mapCall'.name = "initContours"

\* C40: initContours on a map with sorted sigma-orbits and no face leaves
\* no side of a live edge UNINITIALIZED, gives two darts the same left face
\* exactly when they are on one phi-orbit, makes faceCount 1 + the number
\* of phi-orbits, and creates face 0 without anchor; on a map that has
\* faces already it fails and changes nothing
C40_InitContours ==
    [][InitContoursStep =>
         IF Len(map.faces) # 0
         THEN mapCall'.st = "throw" /\ map' = map
         ELSE SigmaSorted(map) =>
                /\ mapCall'.st = "ok"
                /\ \A e \in LiveEdges(map') :
                       /\ map'.edges[e].left # UNINITIALIZED_CELL_LABEL
                       /\ map'.edges[e].right # UNINITIALIZED_CELL_LABEL
                /\ \A d1, d2 \in LiveDarts(map') :
                       (leftFaceLabel(map', d1) = leftFaceLabel(map', d2))
                          <=> (d2 \in PhiOrbit(map', d1))
                /\ map'.faceCount
                      = 1 + Cardinality({PhiOrbit(map', d) :
                                            d \in LiveDarts(map')})
                /\ Len(map'.faces) = map'.faceCount
                /\ FaceLive(map', 0)
                /\ FaceOf(map', 0).anchors = <<>>]_vars

\* initContours has made the infinite face and three contours on a map of
\* three edges with sorted darts: there is a cycle among the edges
C40_Witness ==
    /\ ~aborted
    /\ mapCall.name = "initContours"
    /\ mapCall.st = "ok"
    /\ SigmaSorted(map)
    /\ map.edgeCount = 3
    /\ map.faceCount = 3
    /\ FaceOf(map, 0).anchors = <<>>
====
